---- MODULE Spec2Model ----
(***************************************************************************)
(* A model of the stereotype data-modelling engine: the role registry,     *)
(* the lazy schema compilation of model types (fields, input, validation   *)
(* and per-role output tables), and the construct / validate / serialize   *)
(* / copy operations that run on the compiled tables.                      *)
(***************************************************************************)
EXTENDS Integers, Sequences, FiniteSets, TLC

VARIABLES
    roles,      \* roles._roles: the process-wide registry, a sequence of Role
    decl,       \* the class statements of the program: type name -> declaration
    schema,     \* per model type: its compiled tables, or NotImplemented
    heap,       \* the mutable objects of the program that work by reference
    inst,       \* the model instance the program is working on
    out,        \* what the last operation returned or raised
    pc          \* per thread of a concurrent program: where it is, and its locals

vars == <<roles, decl, schema, heap, inst, out, pc>>

-----------------------------------------------------------------------------
(* Generic helpers                                                         *)

SeqToSet(s) == {s[i] : i \in DOMAIN s}

RECURSIVE Flatten(_)
Flatten(ss) == IF ss = <<>> THEN <<>> ELSE Head(ss) \o Flatten(Tail(ss))

RECURSIVE Dedupe(_)
\* Keeps the first occurrence of every element (dict insertion order).
Dedupe(s) ==
    IF s = <<>> THEN <<>>
    ELSE LET r == Dedupe(SubSeq(s, 1, Len(s) - 1))
         IN IF s[Len(s)] \in SeqToSet(r) THEN r ELSE Append(r, s[Len(s)])

Reverse(s) == [i \in 1..Len(s) |-> s[Len(s) + 1 - i]]

RECURSIVE SetAsSeq(_)
SetAsSeq(S) == IF S = {} THEN <<>>
               ELSE LET x == CHOOSE x \in S : TRUE IN <<x>> \o SetAsSeq(S \ {x})

\* Body applied to the value of x, which is computed once
With(x, Body(_)) == Body(x)

MaxOf(S, dflt) == IF S = {} THEN dflt ELSE CHOOSE m \in S : \A x \in S : x <= m

-----------------------------------------------------------------------------
(* Values.  Every value, raw or converted, is a record of one shape.       *)

Val(t, n, s, items) == [t |-> t, n |-> n, s |-> s, items |-> items]

Missing   == Val("Missing", 0, "", <<>>)      \* the Missing singleton
None      == Val("None", 0, "", <<>>)         \* Python None
IntV(n)   == Val("int", n, "", <<>>)
BoolV(b)  == Val("bool", IF b THEN 1 ELSE 0, "", <<>>)
StrV(s)   == Val("str", 0, s, <<>>)
ListV(xs) == Val("list", 0, "", xs)
Entry(k, v) == Val("entry", 0, k, <<v>>)      \* one key/value pair of a dict
DictV(es) == Val("dict", 0, "", es)           \* a dict, in insertion order
ModelV(T, es) == Val("model", 0, T, es)       \* an instance of model type T

NoName == "<None>"                           \* a primitive name given as None
\* a class attribute of the schema: NotImplemented until compilation sets it
NotImplemented == [set |-> FALSE, v |-> <<>>]
SetTo(v) == [set |-> TRUE, v |-> v]

\* dict.get(key, default) on a sequence of entries
DictGet(es, key, dflt) ==
    IF \E i \in DOMAIN es : es[i].s = key
    THEN es[CHOOSE i \in DOMAIN es : es[i].s = key].items[1]
    ELSE dflt

\* d[key] = value, keeping the position of an existing key
DictSet(es, key, value) ==
    IF \E i \in DOMAIN es : es[i].s = key
    THEN [i \in DOMAIN es |-> IF es[i].s = key THEN Entry(key, value) ELSE es[i]]
    ELSE Append(es, Entry(key, value))

DictKeys(es) == [i \in DOMAIN es |-> es[i].s]

-----------------------------------------------------------------------------
(* Roles                                                                   *)

\* Role.__init__: the code is the registry's length at creation
RoleInit(registry, name, empty_by_default) ==
    Append(registry, [name |-> name, empty_by_default |-> empty_by_default,
                      code |-> Len(registry)])

\* the registry after `DEFAULT_ROLE = Role('default')`
DefaultRegistry == RoleInit(<<>>, "default", FALSE)

DEFAULT_ROLE == DefaultRegistry[1]

RoleByCode(c) == roles[c + 1]

\* Role.whitelist / Role.blacklist: the RequestedRoleFields they build
Whitelist(role, fields, override_parents) ==
    [role |-> role, fields |-> fields, is_whitelist |-> TRUE,
     override_parents |-> override_parents]

Blacklist(role, fields, override_parents) ==
    [role |-> role, fields |-> fields, is_whitelist |-> FALSE,
     override_parents |-> override_parents]

UpdateRequestedNoOwn(self_fields, other, all_field_names, field_names) ==
    LET initial == IF other.override_parents
                   THEN (IF other.is_whitelist THEN {} ELSE all_field_names)
                   ELSE self_fields
    IN IF other.is_whitelist THEN initial \cup other.fields
       ELSE initial \ other.fields

\* FinalizedRoleFields.update_requested: the new value of self.fields
UpdateRequested(self_fields, other, all_field_names, field_names) ==
    LET initial == IF other.override_parents
                   THEN (IF other.is_whitelist THEN {} ELSE all_field_names)
                   ELSE self_fields
    IN IF other.is_whitelist THEN initial \cup other.fields
       ELSE (initial \cup field_names) \ other.fields

-----------------------------------------------------------------------------
(* Field descriptors                                                       *)

Unset == "<Missing>"        \* an option left at its Missing default

AtomicKinds == {"bool", "int", "float", "str"}

\* Field.__init__ with all options at their defaults
BlankField(kind) ==
    [name |-> Unset, kind |-> kind, optional |-> FALSE, allow_none |-> FALSE,
     required |-> TRUE, default |-> None,
     primitive_name |-> Unset, to_primitive_name |-> Unset,
     hide_none |-> FALSE, hide_empty |-> FALSE,
     native_validate |-> IF kind \in {"list", "dict", "model", "union"}
                         THEN "validate" ELSE NoName,
     min_value |-> 0, max_value |-> 0,
     validators |-> <<>>, validator_method |-> NoName, serializable |-> NoName,
     sub |-> <<>>, types |-> <<>>, deep_copy |-> FALSE]

\* Field.__init__: the primitive_name / to_primitive_name options
FieldNames(f, primitive_name, to_primitive_name) ==
    [f EXCEPT !.primitive_name = primitive_name,
              !.to_primitive_name = IF primitive_name # Unset /\ to_primitive_name = Unset
                                    THEN primitive_name ELSE to_primitive_name]

\* Field.init_name
InitName(f, name) ==
    [f EXCEPT !.name = name,
              !.primitive_name = IF f.primitive_name = Unset THEN name ELSE f.primitive_name,
              !.to_primitive_name = IF f.to_primitive_name = Unset THEN name
                                    ELSE f.to_primitive_name]

\* Field.init_default
InitDefault(f, default) == [f EXCEPT !.required = FALSE, !.default = default]

\* _BaseNumberField._set_min_max_value_validation; Absent stands for None
Absent == -1000
SetMinMax(f, min_value, max_value) ==
    [f EXCEPT !.min_value = min_value, !.max_value = max_value,
              !.native_validate =
                  IF min_value # Absent /\ max_value # Absent THEN "_validate_min_max_value"
                  ELSE IF min_value # Absent THEN "_validate_min_value"
                  ELSE IF max_value # Absent THEN "_validate_max_value"
                  ELSE f.native_validate]

Atomic(f) == f.kind \in AtomicKinds

\* Field.custom_to_primitive: whether the field type overrides to_primitive
CustomToPrimitive(f) == f.kind \in {"list", "dict", "model", "union", "any"}

\* the field type's empty_value
EmptyValue(f) ==
    CASE f.kind = "bool" -> BoolV(FALSE)
      [] f.kind \in {"int", "float"} -> Val(f.kind, 0, "", <<>>)
      [] f.kind = "str" -> StrV("")
      [] f.kind = "list" -> ListV(<<>>)
      [] f.kind \in {"dict", "model"} -> DictV(<<>>)
      [] OTHER -> Missing

RECURSIVE Resolve(_)
\* AnnotationResolver.resolve: nullability comes from the annotation, and the
\* container fields resolve their element fields the same way
Resolve(f) ==
    [f EXCEPT !.allow_none = f.optional,
              !.sub = [i \in DOMAIN f.sub |-> Resolve(f.sub[i])]]

HasValidationNoNullable(f) ==
    \/ f.required
    \/ f.validator_method # NoName
    \/ f.native_validate # NoName
    \/ f.validators # <<>>

\* Field.has_validation
HasValidation(f) ==
    \/ f.required
    \/ ~f.allow_none
    \/ f.validator_method # NoName
    \/ f.native_validate # NoName
    \/ f.validators # <<>>

\* Field.make_input_config
MakeInputConfig(f) ==
    [name |-> f.name, primitive_name |-> f.primitive_name, field |-> f,
     copy_value |-> ~Atomic(f)]

\* Field.make_validated_config
MakeValidatedConfig(f) ==
    [name |-> f.name,
     input_name |-> IF f.primitive_name # NoName THEN f.primitive_name
                    ELSE IF f.to_primitive_name # NoName THEN f.to_primitive_name
                    ELSE f.name,
     allow_none |-> f.allow_none, field |-> f, validator_method |-> f.validator_method]

\* Field.make_output_config
MakeOutputConfig(f) ==
    [field |-> f, name |-> f.name, serializable |-> f.serializable,
     to_primitive |-> CustomToPrimitive(f), to_primitive_name |-> f.to_primitive_name,
     hide_none |-> f.hide_none, hide_empty |-> f.hide_empty]

-----------------------------------------------------------------------------
(* Class declarations and what ModelMeta.__new__ derives from them         *)

\* A declaration: bases (model types, in order), fields (the annotated
\* attributes with their resolved explicit or automatic Field, in order),
\* serializable (the @serializable properties), validate (field name ->
\* validate_<field> method), declare_roles (the requests it yields, in order).
Types == DOMAIN decl

FieldNamesOf(fs) == {fs[i].name : i \in DOMAIN fs}

\* ModelMeta.__new__: own_field_names
OwnFieldNames(T) == FieldNamesOf(decl[T].fields) \cup FieldNamesOf(decl[T].serializable)

RECURSIVE Mro(_)
\* the method resolution order of a type whose bases share no ancestor
Mro(T) == Dedupe(<<T>> \o Flatten([i \in DOMAIN decl[T].bases |-> Mro(decl[T].bases[i])]))

\* typing.get_type_hints(cls): the annotated names, base-most class first
HintNames(T) ==
    LET rev == Reverse(Mro(T))
    IN Dedupe(Flatten([i \in DOMAIN rev |->
                         [j \in DOMAIN decl[rev[i]].fields |-> decl[rev[i]].fields[j].name]]))

\* the class of T's MRO whose annotation of `name` get_type_hints keeps
AnnotatingClass(T, name) ==
    With(Mro(T), LAMBDA mro :
        mro[CHOOSE i \in DOMAIN mro :
                /\ name \in FieldNamesOf(decl[mro[i]].fields)
                /\ \A j \in 1..(i - 1) : name \notin FieldNamesOf(decl[mro[j]].fields)])

DeclaredField(T, name) ==
    LET fs == decl[T].fields IN fs[CHOOSE i \in DOMAIN fs : fs[i].name = name]

RECURSIVE AbstractSlots(_)
\* ModelMeta.__new__: __abstract_slots__
AbstractSlots(T) ==
    (UNION {AbstractSlots(decl[T].bases[i]) : i \in DOMAIN decl[T].bases}
        \cup FieldNamesOf(decl[T].fields))
    \ FieldNamesOf(decl[T].serializable)

\* a lookup that finds the validate_<name> method of any class of the program
ValidatorMethodOfAny(T, name) ==
    With({U \in DOMAIN decl : name \in DOMAIN decl[U].validate}, LAMBDA has :
        IF has = {} THEN NoName ELSE decl[CHOOSE U \in has : TRUE].validate[name])

\* getattr(cls, 'validate_<name>', None): the first class of the MRO that defines it
ValidatorMethodOf(T, name) ==
    With(Mro(T), LAMBDA mro :
        With({i \in DOMAIN mro : name \in DOMAIN decl[mro[i]].validate}, LAMBDA has :
            IF has = {} THEN NoName
            ELSE decl[mro[CHOOSE i \in has : \A j \in has : i <= j]].validate[name]))

-----------------------------------------------------------------------------
(* Schema compilation: ModelMeta._initialize_model                         *)

\* the attributes ModelMeta.__new__ leaves on a new class
Uncompiled ==
    [fields |-> NotImplemented, input_fields |-> NotImplemented,
     validated_fields |-> NotImplemented, role_fields |-> NotImplemented,
     roles |-> NotImplemented]

\* the alphabetical order dir(cls) lists attribute names in
DirOrder ==
    <<"a", "b", "basic_serializable", "c", "child", "d", "default_serializable", "field",
      "items", "m", "num", "p", "q", "u">>

\* ModelMeta._ensure_parent_models, second half: the compiled fields of the
\* bases that the class does not declare itself; a later base overwrites
BaseFieldValue(sch, T, name) ==
    LET bases == decl[T].bases
        has == {i \in DOMAIN bases :
                  \E k \in DOMAIN sch[bases[i]].fields.v :
                      sch[bases[i]].fields.v[k].name = name}
        b == bases[CHOOSE i \in has : \A j \in has : j <= i]
        fs == sch[b].fields.v
    IN fs[CHOOSE k \in DOMAIN fs : fs[k].name = name]

HasBaseFieldValue(sch, T, name) ==
    /\ name \notin OwnFieldNames(T)
    /\ \E i \in DOMAIN decl[T].bases :
          \E k \in DOMAIN sch[decl[T].bases[i]].fields.v :
              sch[decl[T].bases[i]].fields.v[k].name = name

\* ModelMeta._analyze_fields, for one annotated name
AnalyzeField(sch, T, name) ==
    With(DeclaredField(AnnotatingClass(T, name), name), LAMBDA ann :
    With(IF HasBaseFieldValue(sch, T, name)
         THEN BaseFieldValue(sch, T, name)       \* Field.copy_field
         ELSE ann, LAMBDA explicit :
    With(InitName([Resolve(explicit) EXCEPT !.allow_none = ann.optional], name), LAMBDA field :
    With(ValidatorMethodOf(T, name), LAMBDA validator_method :
        IF validator_method # NoName
        THEN [field EXCEPT !.validator_method = validator_method]
        ELSE field))))

\* ModelMeta._analyze_fields
AnalyzeFields(sch, T) ==
    With(AbstractSlots(T), LAMBDA slots :
    With(SelectSeq(HintNames(T), LAMBDA n : n \in slots), LAMBDA names :
        [i \in DOMAIN names |-> AnalyzeField(sch, T, names[i])]))

\* ModelMeta._analyze_serializable: the serializable properties dir(cls) finds
AnalyzeSerializable(T) ==
    With(Mro(T), LAMBDA mro :
        LET defs(name) == {i \in DOMAIN mro : name \in OwnFieldNames(mro[i])}
            owner(name) == mro[CHOOSE i \in defs(name) : \A j \in defs(name) : i <= j]
        IN With(SelectSeq(DirOrder, LAMBDA n :
                    defs(n) # {} /\ n \in FieldNamesOf(decl[owner(n)].serializable)),
                LAMBDA names :
                    [i \in DOMAIN names |->
                        With(decl[owner(names[i])].serializable, LAMBDA fs :
                            InitName(fs[CHOOSE k \in DOMAIN fs : fs[k].name = names[i]],
                                     names[i]))]))

\* ModelMeta._collect_own_requested_roles: role code -> request
OwnRequestedRoles(T) ==
    LET reqs == decl[T].declare_roles
    IN [c \in {reqs[i].role : i \in DOMAIN reqs} |->
          reqs[CHOOSE i \in DOMAIN reqs : reqs[i].role = c]]

BaseContributionAllFields(sch, base, code) ==
    {sch[base].fields.v[k].name : k \in DOMAIN sch[base].fields.v}

\* ModelMeta._collect_finalized_roles, lines 216-222: what one base adds to
\* the running set of the role with this code
BaseContribution(sch, base, code) ==
    IF code \in DOMAIN sch[base].roles.v
    THEN sch[base].roles.v[code]
    ELSE IF ~RoleByCode(code).empty_by_default
         THEN {sch[base].fields.v[k].name : k \in DOMAIN sch[base].fields.v}
         ELSE {}

\* ModelMeta._collect_finalized_roles, lines 215-222: the running set of a
\* role after the bases were merged
MergedFromBases(sch, T, code) ==
    UNION {BaseContribution(sch, decl[T].bases[i], code) : i \in DOMAIN decl[T].bases}

\* ModelMeta._collect_finalized_roles: role code -> resolved field names
CollectFinalizedRoles(sch, T, fields) ==
    With(OwnRequestedRoles(T), LAMBDA own_requested_roles :
    With(FieldNamesOf(fields), LAMBDA all_field_names :
    With(OwnFieldNames(T), LAMBDA own_field_names :
    With(UNION {DOMAIN sch[decl[T].bases[i]].roles.v : i \in DOMAIN decl[T].bases}
            \cup DOMAIN own_requested_roles, LAMBDA all_roles :
        [code \in all_roles |->
            With(MergedFromBases(sch, T, code), LAMBDA merged :
                IF code \in DOMAIN own_requested_roles
                THEN UpdateRequested(merged, own_requested_roles[code],
                                     all_field_names, own_field_names)
                ELSE IF ~RoleByCode(code).empty_by_default
                     THEN merged \cup own_field_names
                     ELSE merged)]))))

\* ModelMeta._build_roles: __role_fields__, one output table per role code; a
\* table lists, by name, the fields of __fields__ whose output config it holds
BuildRoleFields(fields, finalized) ==
    With(MaxOf(DOMAIN finalized, 0), LAMBDA max_role_code :
    With(SelectSeq([i \in DOMAIN fields |-> fields[i].name], LAMBDA n :
            \E i \in DOMAIN fields :
                fields[i].name = n /\ fields[i].to_primitive_name # NoName),
         LAMBDA default_role_fields :
        [i \in 1..(max_role_code + 1) |->
            IF (i - 1) \in DOMAIN finalized
            THEN SelectSeq(default_role_fields, LAMBDA n : n \in finalized[i - 1])
            ELSE default_role_fields]))

RECURSIVE InitializeModel(_, _)
RECURSIVE EnsureParentModels(_, _)

\* bases that are left as they are found
EnsureParentModelsNever(sch, bases) == sch

\* ModelMeta._ensure_parent_models, first half: compile the bases that are not
EnsureParentModels(sch, bases) ==
    IF bases = <<>> THEN sch
    ELSE EnsureParentModels(
            IF ~sch[Head(bases)].fields.set THEN InitializeModel(sch, Head(bases)) ELSE sch,
            Tail(bases))

\* ModelMeta._initialize_model: the schemas after cls.__initialize_model__().
\* The three tables hold their entries by field name: an entry is the config
\* (make_input_config, make_validated_config, make_output_config) of that
\* Field object of __fields__.
InitializeModel(sch, T) ==
    With(EnsureParentModels(sch, decl[T].bases), LAMBDA sch1 :
    With(AnalyzeSerializable(T), LAMBDA serializable :
    With(FieldNamesOf(serializable), LAMBDA serializable_names :
    With(SelectSeq(AnalyzeFields(sch1, T), LAMBDA f : f.name \notin serializable_names),
         LAMBDA input_fields :
    With(SelectSeq(input_fields, HasValidation), LAMBDA validated :
    With(input_fields \o serializable, LAMBDA fields :
    With(CollectFinalizedRoles(sch1, T, fields), LAMBDA finalized :
        [sch1 EXCEPT ![T] =
            [fields |-> SetTo(fields),
             input_fields |-> SetTo([i \in DOMAIN input_fields |-> input_fields[i].name]),
             validated_fields |-> SetTo([i \in DOMAIN validated |-> validated[i].name]),
             role_fields |-> SetTo(BuildRoleFields(fields, finalized)),
             roles |-> SetTo(finalized)]])))))))

FieldNamed(tables, name) ==
    tables.fields.v[CHOOSE k \in DOMAIN tables.fields.v : tables.fields.v[k].name = name]

\* cls.__input_fields__
InputFields(tables) ==
    [i \in DOMAIN tables.input_fields.v |->
        MakeInputConfig(FieldNamed(tables, tables.input_fields.v[i]))]

\* cls.__validated_fields__
ValidatedFields(tables) ==
    [i \in DOMAIN tables.validated_fields.v |->
        MakeValidatedConfig(FieldNamed(tables, tables.validated_fields.v[i]))]

\* cls.__role_fields__[index]
RoleFields(tables, index) ==
    [i \in DOMAIN tables.role_fields.v[index] |->
        MakeOutputConfig(FieldNamed(tables, tables.role_fields.v[index][i]))]

-----------------------------------------------------------------------------
(* Conversion: Field.convert of every field type, and Model.__init__       *)

FloatV(halves) == Val("float", halves, "", <<>>)   \* the float halves / 2
Inf == Val("float", 0, "inf", <<>>)                \* float('inf')

\* str(n) and int(s) for the numbers the model uses
Digits == <<"0", "1", "2", "3", "4", "5", "6", "7", "8", "9">>
IntToStr(n) == Digits[n + 1]
IsNumeric(s) == \E i \in DOMAIN Digits : Digits[i] = s
StrToInt(s) == (CHOOSE i \in DOMAIN Digits : Digits[i] = s) - 1

\* what a conversion returns or raises; touched are the model types whose
\* __init__ ran, converted the fields of the model whose convert was called
Returned(v, touched) ==
    [exc |-> "", v |-> v, path |-> <<>>, msg |-> "", touched |-> touched,
     converted |-> <<>>]
Raised(exc, path, msg, touched) ==
    [exc |-> exc, v |-> Missing, path |-> path, msg |-> msg, touched |-> touched,
     converted |-> <<>>]

\* Field._fill_missing
FillMissing(f) == IF f.required THEN Missing ELSE f.default

\* IntField.convert, for a value that is neither Missing nor None
IntConvert(value) ==
    CASE value.t \in {"int", "bool"} -> Returned(IntV(value.n), {})
      [] value.t = "float" /\ value.s = "inf" ->
            Raised("OverflowError", <<>>, "cannot convert float infinity to integer", {})
      [] value.t = "float" /\ value.n % 2 # 0 ->
            Raised("TypeError", <<>>, "Numeric value is not an integer", {})
      [] value.t = "float" -> Returned(IntV(value.n \div 2), {})
      [] value.t = "str" /\ IsNumeric(value.s) -> Returned(IntV(StrToInt(value.s)), {})
      [] OTHER -> Raised("TypeError", <<>>, "Value is not an integer number", {})

\* BoolField.convert, lines 46-53, for a value that is neither Missing nor None;
\* the membership tests hash the value, which a list, a dict and a model
\* instance do not allow
BoolConvert(value) ==
    CASE value.t = "bool" -> Returned(value, {})
      [] value.t \in {"list", "dict", "model"} ->
            Raised("TypeError", <<>>, "unhashable type", {})
      [] value.t = "str" /\ value.s \in {"true", "True", "yes", "Yes"} ->
            Returned(BoolV(TRUE), {})
      [] value.t = "str" /\ value.s \in {"false", "False", "no", "No"} ->
            Returned(BoolV(FALSE), {})
      [] OTHER -> Raised("TypeError", <<>>,
                         "Value must be a boolean or a true/false/yes/no string value", {})

\* StrField.convert (Field.convert: str(value)), for the atomic raw values
StrConvert(value) ==
    CASE value.t = "str" -> Returned(value, {})
      [] value.t = "int" /\ value.n \in 0..9 -> Returned(StrV(IntToStr(value.n)), {})
      [] OTHER -> Returned(StrV("<repr>"), {})

\* a handler that re-raises the error without the key of the element
WrapErrorNoKey(r, key) ==
    IF r.exc \in {"TypeError", "ValueError"} THEN [r EXCEPT !.exc = "ConversionError"]
    ELSE r

\* how Model.__init__, ListField.convert and DictField.convert handle what
\* the conversion of one element raised
WrapError(r, key) ==
    IF r.exc = "ConversionError" THEN [r EXCEPT !.path = <<key>> \o r.path]
    ELSE IF r.exc \in {"TypeError", "ValueError"}
         THEN [r EXCEPT !.exc = "ConversionError", !.path = <<key>>]
         ELSE r

\* isinstance(value, cls) for a model instance
IsInstance(value, T) == value.t = "model" /\ T \in SeqToSet(Mro(value.s))

\* a type map that answers every lookup with its first model
TypeMapGetFirst(f, value_type) == f.types[1]

\* DynamicModelField: self.type_map.get(value_type, None), the type map being
\* {option.type: option} over the candidate models; NoName stands for None
TypeMapGet(f, value_type) ==
    With({i \in DOMAIN f.types : value_type = StrV(decl[f.types[i]].type)}, LAMBDA match :
        IF match = {} THEN NoName ELSE f.types[CHOOSE i \in match : TRUE])

RECURSIVE ConvertField(_, _, _)
RECURSIVE ConvertItems(_, _, _, _, _)
RECURSIVE ConvertEntries(_, _, _, _, _)
RECURSIVE ConvertInputs(_, _, _, _, _)
RECURSIVE ModelInit(_, _, _)

\* ListField.convert, lines 97-102: the loop over the items from index i
ConvertItems(tab, f, items, i, acc) ==
    IF i > Len(items) THEN Returned(ListV(acc.v), acc.touched)
    ELSE With(ConvertField(tab, f.sub[1], items[i]), LAMBDA r :
         With(acc.touched \cup r.touched, LAMBDA touched :
            IF r.exc # ""
            THEN [WrapError(r, IntToStr(i - 1)) EXCEPT !.touched = touched]
            ELSE ConvertItems(tab, f, items, i + 1,
                              [v |-> Append(acc.v, r.v), touched |-> touched])))

\* DictField.convert, lines 192-197: the comprehension over the entries from i
ConvertEntries(tab, f, entries, i, acc) ==
    IF i > Len(entries) THEN Returned(DictV(acc.v), acc.touched)
    ELSE With(StrConvert(StrV(entries[i].s)).v.s, LAMBDA key :  \* the key field is a StrField
         With(ConvertField(tab, f.sub[2], entries[i].items[1]), LAMBDA r :
         With(acc.touched \cup r.touched, LAMBDA touched :
            IF r.exc # ""
            THEN [WrapError(r, key) EXCEPT !.touched = touched]
            ELSE ConvertEntries(tab, f, entries, i + 1,
                                [v |-> DictSet(acc.v, key, r.v), touched |-> touched]))))

\* the convert method of the field's type
ConvertField(tab, f, value) ==
    IF value = Missing THEN Returned(FillMissing(f), {})
    ELSE IF f.kind = "any" THEN Returned(value, {})
    ELSE IF f.kind = "union" THEN
        IF value.t = "model" /\ ~\E i \in DOMAIN f.types : IsInstance(value, f.types[i])
        THEN Raised("TypeError", <<>>, "Expected Union, got", {})
        ELSE IF value.t = "model" \/ value = None THEN Returned(value, {})
        ELSE IF value.t # "dict"
        THEN Raised("TypeError", <<>>, "Expected a mapping with a type field, got type", {})
        ELSE IF DictGet(value.items, "type", Missing) = Missing
        THEN Raised("TypeError", <<>>,
                    "Expected a mapping with a type field, got no type field", {})
        ELSE With(TypeMapGet(f, DictGet(value.items, "type", Missing)), LAMBDA type_cls :
                IF type_cls = NoName
                THEN Raised("TypeError", <<>>, "Got a mapping with unsupported type", {})
                ELSE ModelInit(tab, type_cls, value))
    ELSE IF value = None THEN Returned(None, {})
    ELSE CASE f.kind = "int" -> IntConvert(value)
           [] f.kind = "str" -> StrConvert(value)
           [] f.kind = "bool" -> BoolConvert(value)
           [] f.kind = "list" ->
                \* enumerate() of a raw value that is no list, dict or str raises
                \* TypeError inside the try block, before any item is seen
                IF value.t = "list"
                THEN ConvertItems(tab, f, value.items, 1, [v |-> <<>>, touched |-> {}])
                ELSE IF value.t = "dict"
                THEN ConvertItems(tab, f, [i \in DOMAIN value.items |-> StrV(value.items[i].s)],
                                  1, [v |-> <<>>, touched |-> {}])
                ELSE Raised("ConversionError", <<"0">>, "object is not iterable", {})
           [] f.kind = "dict" ->
                IF value.t # "dict"
                THEN Raised("TypeError", <<>>, "Expected a dict, got a", {})
                ELSE ConvertEntries(tab, f, value.items, 1, [v |-> <<>>, touched |-> {}])
           [] f.kind = "model" ->
                IF IsInstance(value, f.types[1]) THEN Returned(value, {})
                ELSE IF value.t # "dict"
                THEN Raised("TypeError", <<>>, "Supplied type, needs a mapping or", {})
                ELSE ModelInit(tab, f.types[1], value)
           [] OTHER -> Returned(value, {})

\* Model.__init__, lines 47-57: the loop over __input_fields__ from entry i
ConvertInputs(tab, T, raw_data, i, acc) ==
    IF i > Len(tab[T].input_fields.v)
    THEN [Returned(ModelV(T, acc.v), acc.touched) EXCEPT !.converted = acc.converted]
    ELSE With(MakeInputConfig(FieldNamed(tab[T], tab[T].input_fields.v[i])), LAMBDA cfg :
         With(IF cfg.primitive_name = NoName THEN Missing
              ELSE DictGet(raw_data.items, cfg.primitive_name, Missing), LAMBDA value :
         With(ConvertField(tab, cfg.field, value), LAMBDA r :
         With(acc.touched \cup r.touched, LAMBDA touched :
         With(Append(acc.converted, cfg.name), LAMBDA converted :
            IF r.exc # ""
            THEN [WrapError(r, cfg.primitive_name) EXCEPT !.touched = touched,
                                                         !.converted = converted]
            ELSE ConvertInputs(tab, T, raw_data, i + 1,
                               [v |-> Append(acc.v, Entry(cfg.name, r.v)),
                                touched |-> touched, converted |-> converted]))))))

\* Model.__init__: tab[T] are the tables of T, compiled first when they were not
ModelInit(tab, T, raw_data) ==
    IF raw_data # None /\ raw_data.t # "dict"
    THEN Raised("ConversionError", <<>>, "Supplied type, needs a mapping", {T})
    ELSE ConvertInputs(tab, T, IF raw_data = None THEN DictV(<<>>) ELSE raw_data,
                       1, [v |-> <<>>, touched |-> {T}, converted |-> <<>>])

\* getattr(instance, name)
GetAttr(instance, name) == DictGet(instance.items, name, Missing)

-----------------------------------------------------------------------------
(* Validation: Field.validation_errors and Model.validation_errors.  A      *)
(* check that ran is an event: where it ran, which check it was, and the    *)
(* message it yielded ("" when it passed).                                  *)

Event(path, src, msg) == [path |-> path, src |-> src, msg |-> msg]

\* errors passed on with the path they came with
NotPrefixed(key, events) == events

\* (str(index),) + path, (str(key),) + path, (input_name,) + path
Prefixed(key, events) ==
    [i \in DOMAIN events |-> [events[i] EXCEPT !.path = <<key>> \o events[i].path]]

\* the validator callables the declarations use: the message of the ValueError
\* the callable raises for this value, "" when it returns
ValidatorMessage(validator, value) ==
    CASE validator = "not_1" -> IF value = IntV(1) THEN "Not that one" ELSE ""
      [] validator = "not_1_or_2" ->
            IF value \in {IntV(1), IntV(2)} THEN "Not one or two" ELSE ""
      [] validator = "not_none" -> IF value = None THEN "Must not be null" ELSE ""
      [] OTHER -> ""

\* the validate_<field> methods the declarations use, likewise
MethodMessage(method, self, value) ==
    CASE method = "odd_only" ->
            IF value.t = "int" /\ value.n % 2 = 0 THEN "Must be odd" ELSE ""
      [] method = "not_1_or_3" ->
            IF value \in {IntV(1), IntV(3)} THEN "Not one or three" ELSE ""
      [] method = "not_none" -> IF value = None THEN "Method rejects null" ELSE ""
      [] method = "has_cnt" ->
            IF value.t = "model" /\ DictGet(value.items, "cnt", None) = None
            THEN "Needs a count" ELSE ""
      [] OTHER -> ""

\* _BaseNumberField._validate_min_max_value / _validate_min_value / _validate_max_value
NumberValidate(f, value) ==
    CASE f.native_validate = "_validate_min_max_value" ->
            IF ~(f.min_value <= value.n /\ value.n <= f.max_value)
            THEN <<Event(<<>>, "native", "Must be between")>>
            ELSE <<Event(<<>>, "native", "")>>
      [] f.native_validate = "_validate_min_value" ->
            IF value.n < f.min_value
            THEN <<Event(<<>>, "native", "Must be at least")>>
            ELSE <<Event(<<>>, "native", "")>>
      [] f.native_validate = "_validate_max_value" ->
            IF value.n > f.max_value
            THEN <<Event(<<>>, "native", "Must be at most")>>
            ELSE <<Event(<<>>, "native", "")>>

RECURSIVE FieldValidationErrors(_, _, _)
RECURSIVE NativeValidate(_, _, _)
RECURSIVE ModelValidationErrors(_, _)

\* the validator callables of Field.validation_errors, lines 114-119
ValidatorEvents(f, value) ==
    [i \in DOMAIN f.validators |->
        Event(<<>>, "validator", ValidatorMessage(f.validators[i], value))]

FieldValidationErrorsNoReturn(tab, f, value) ==
    (IF value = Missing \/ (value = None /\ ~f.allow_none)
     THEN <<Event(<<>>, "required", "This field is required")>> ELSE <<>>)
    \o (IF f.native_validate # NoName /\ value \notin {None, Missing}
        THEN NativeValidate(tab, f, value) ELSE <<>>)
    \o ValidatorEvents(f, value)

\* a variant whose validator callables are skipped for null as the native rule is
FieldValidationErrorsSkipNull(tab, f, value) ==
    IF value = Missing \/ (value = None /\ ~f.allow_none)
    THEN <<Event(<<>>, "required", "This field is required")>>
    ELSE IF value = None THEN <<>>
    ELSE (IF f.native_validate # NoName THEN NativeValidate(tab, f, value) ELSE <<>>)
         \o ValidatorEvents(f, value)

\* Field.validation_errors
FieldValidationErrors(tab, f, value) ==
    IF value = Missing \/ (value = None /\ ~f.allow_none)
    THEN <<Event(<<>>, "required", "This field is required")>>
    ELSE (IF f.native_validate # NoName /\ value # None
          THEN NativeValidate(tab, f, value) ELSE <<>>)
         \o ValidatorEvents(f, value)

\* the validate method native_validate is bound to
NativeValidate(tab, f, value) ==
    CASE f.kind \in {"int", "float"} -> NumberValidate(f, value)
      [] f.kind = "list" ->
            \* ListField.validate (the length options are left at their defaults)
            <<Event(<<>>, "native", "")>> \o
            Flatten([i \in DOMAIN value.items |->
                Prefixed(IntToStr(i - 1),
                         FieldValidationErrors(tab, f.sub[1], value.items[i]))])
      [] f.kind = "dict" ->
            \* DictField.validate
            <<Event(<<>>, "native", "")>> \o
            Flatten([i \in DOMAIN value.items |->
                Prefixed(value.items[i].s,
                         FieldValidationErrors(tab, f.sub[1], StrV(value.items[i].s))
                         \o FieldValidationErrors(tab, f.sub[2], value.items[i].items[1]))])
      [] f.kind \in {"model", "union"} ->
            \* ModelField.validate, DynamicModelField.validate
            <<Event(<<>>, "native", "")>> \o ModelValidationErrors(tab, value)
      [] OTHER -> <<>>

\* Model.validation_errors, lines 116-123: one entry of __validated_fields__
ValidatedFieldEvents(tab, self, cfg) ==
    With(GetAttr(self, cfg.name), LAMBDA value :
        Prefixed(cfg.input_name, FieldValidationErrors(tab, cfg.field, value))
        \o (IF /\ cfg.validator_method # NoName
               /\ value # Missing
               /\ (value # None \/ cfg.allow_none)
            THEN <<Event(<<cfg.input_name>>, "method",
                         MethodMessage(cfg.validator_method, self, value))>>
            ELSE <<>>))

ModelValidationErrorsFirstOnly(tab, self) ==
    With(ValidatedFields(tab[self.s]), LAMBDA table :
    With(Flatten([i \in DOMAIN table |-> ValidatedFieldEvents(tab, self, table[i])]),
         LAMBDA all :
    With({i \in DOMAIN all : all[i].msg # ""}, LAMBDA bad :
        IF bad = {} THEN all
        ELSE SubSeq(all, 1, CHOOSE i \in bad : \A j \in bad : i <= j))))

\* Model.validation_errors: the events of every entry of __validated_fields__
ModelValidationErrors(tab, self) ==
    With(ValidatedFields(tab[self.s]), LAMBDA table :
        Flatten([i \in DOMAIN table |-> ValidatedFieldEvents(tab, self, table[i])]))

\* the (path, message) pairs the generator yields
ErrorsOf(events) ==
    With(SelectSeq(events, LAMBDA e : e.msg # ""), LAMBDA bad :
        [i \in DOMAIN bad |-> [path |-> bad[i].path, msg |-> bad[i].msg]])

\* Model.validate: raises ValidationError(errors) when there are errors
Validate(tab, self) ==
    With(ModelValidationErrors(tab, self), LAMBDA events :
    With(ErrorsOf(events), LAMBDA errors :
        [op |-> "validate", exc |-> IF errors # <<>> THEN "ValidationError" ELSE "",
         errors |-> errors, events |-> events]))

\* what DataError.errors returns (a dict) or raises
ErrorsReturned(es) == [exc |-> "", es |-> es]
ErrorsRaised(exc) == [exc |-> exc, es |-> <<>>]

RECURSIVE AddError(_, _, _)

\* DataError.errors, lines 81-87: one (path, error) pair is entered into the
\* dict container, whose entries are es
AddError(es, path, error) ==
    IF Len(path) = 1
    THEN \* array = container.setdefault(path[-1], []); array.append(error)
         With(DictGet(es, path[1], ListV(<<>>)), LAMBDA array :
            IF array.t # "list" THEN ErrorsRaised("AttributeError")
            ELSE ErrorsReturned(DictSet(es, path[1],
                                        ListV(Append(array.items, StrV(error))))))
    ELSE \* value = container.setdefault(item, {}), a list moved under '_global'
         With(DictGet(es, path[1], DictV(<<>>)), LAMBDA found :
         With(IF found.t = "list" THEN DictV(<<Entry("_global", found)>>) ELSE found,
              LAMBDA value :
         With(AddError(value.items, Tail(path), error), LAMBDA inner :
            IF inner.exc # "" THEN inner
            ELSE ErrorsReturned(DictSet(es, path[1], DictV(inner.es))))))

RECURSIVE DataErrorErrors(_)

\* DataError.errors of an exception whose error_list is the given pairs
DataErrorErrors(error_list) ==
    IF error_list = <<>> THEN ErrorsReturned(<<>>)
    ELSE With(DataErrorErrors(SubSeq(error_list, 1, Len(error_list) - 1)), LAMBDA done :
         With(error_list[Len(error_list)], LAMBDA last :
            IF done.exc # "" THEN done
            ELSE AddError(done.es, IF last.path = <<>> THEN <<"_global">> ELSE last.path,
                          last.msg)))

-----------------------------------------------------------------------------
(* Serialization: Field.to_primitive of every field type, Model.to_primitive *)

\* the @serializable functions the declarations use
SerializableValue(fn, self) ==
    CASE fn = "seven" -> IntV(7)
      [] fn = "nothing" -> None
      [] OTHER -> GetAttr(self, fn)          \* returns the attribute of that name

\* Model.to_primitive, lines 66-71: the index in __role_fields__ of the output
\* table of a role, 0 when the method returns {} at once
SelectRoleFields(role_fields, role) ==
    IF role.code < Len(role_fields) THEN role.code + 1
    ELSE IF role.empty_by_default THEN 0
    ELSE 1

RECURSIVE FieldToPrimitive(_, _, _, _)
RECURSIVE WriteOutputs(_, _, _, _, _, _)
RECURSIVE ModelToPrimitive(_, _, _)

FieldToPrimitiveNoType(tab, f, value, role) ==
    IF value \in {None, Missing} THEN value
    ELSE CASE f.kind = "list" ->
                IF ~CustomToPrimitive(f.sub[1]) THEN value
                ELSE ListV([i \in DOMAIN value.items |->
                               FieldToPrimitive(tab, f.sub[1], value.items[i], role)])
           [] f.kind = "dict" ->
                IF ~CustomToPrimitive(f.sub[2]) THEN value
                ELSE DictV([i \in DOMAIN value.items |->
                               Entry(value.items[i].s,
                                     FieldToPrimitive(tab, f.sub[2],
                                                      value.items[i].items[1], role))])
           [] f.kind \in {"model", "union"} -> ModelToPrimitive(tab, value, role)
           [] OTHER -> value

\* the to_primitive method of the field's type
FieldToPrimitive(tab, f, value, role) ==
    IF value \in {None, Missing} THEN value
    ELSE CASE f.kind = "list" ->
                IF ~CustomToPrimitive(f.sub[1]) THEN value
                ELSE ListV([i \in DOMAIN value.items |->
                               FieldToPrimitive(tab, f.sub[1], value.items[i], role)])
           [] f.kind = "dict" ->
                IF ~CustomToPrimitive(f.sub[2]) THEN value
                ELSE DictV([i \in DOMAIN value.items |->
                               Entry(value.items[i].s,
                                     FieldToPrimitive(tab, f.sub[2],
                                                      value.items[i].items[1], role))])
           [] f.kind = "model" -> ModelToPrimitive(tab, value, role)
           [] f.kind = "union" ->
                DictV(DictSet(ModelToPrimitive(tab, value, role).items,
                              "type", StrV(decl[value.s].type)))
           [] OTHER -> value

\* a test that lets either flag hide a null as well as an empty value
HiddenByEither(cfg, converted) ==
    (cfg.hide_none \/ cfg.hide_empty) /\ converted \in {None, EmptyValue(cfg.field)}

\* Model.to_primitive, line 80: the converted value is hidden
Hidden(cfg, converted) ==
    \/ converted = None /\ cfg.hide_none
    \/ cfg.hide_empty /\ converted = EmptyValue(cfg.field)

\* a test that never hides a computed value
SerializableNeverHidden(cfg, value) == FALSE

\* Model.to_primitive, line 85: the computed value is hidden
SerializableHidden(cfg, value) == value = None /\ cfg.hide_none

\* Model.to_primitive, lines 73-88: the loop over the output table from entry i
WriteOutputs(tab, self, role, fields, i, result) ==
    IF i > Len(fields) THEN result
    ELSE With(fields[i], LAMBDA cfg :
         LET next(r) == WriteOutputs(tab, self, role, fields, i + 1, r)
         IN IF cfg.serializable = NoName
            THEN With(GetAttr(self, cfg.name), LAMBDA value :
                 With(IF cfg.to_primitive /\ value # Missing
                      THEN FieldToPrimitive(tab, cfg.field, value, role)
                      ELSE value, LAMBDA converted :
                    IF value = Missing THEN next(result)
                    ELSE IF Hidden(cfg, converted) THEN next(result)
                    ELSE next(DictSet(result, cfg.to_primitive_name, converted))))
            ELSE With(SerializableValue(cfg.serializable, self), LAMBDA value :
                    IF SerializableHidden(cfg, value) THEN next(result)
                    ELSE next(DictSet(result, cfg.to_primitive_name, value))))

\* Model.to_primitive
ModelToPrimitive(tab, self, role) ==
    With(SelectRoleFields(tab[self.s].role_fields.v, role), LAMBDA index :
        IF index = 0 THEN DictV(<<>>)
        ELSE DictV(WriteOutputs(tab, self, role, RoleFields(tab[self.s], index), 1, <<>>)))

\* Model.fields_for_role, lines 221-224, on the compiled tables of the class
FieldsForRole(tables, role) ==
    IF role.code < Len(tables.role_fields.v)
    THEN [i \in DOMAIN tables.role_fields.v[role.code + 1] |->
             RoleFields(tables, role.code + 1)[i].field]
    ELSE IF role.empty_by_default THEN <<>> ELSE tables.fields.v

\* Model.field_names_for_role
FieldNamesForRole(tables, role) ==
    With(FieldsForRole(tables, role), LAMBDA fs :
        [i \in DOMAIN fs |-> fs[i].to_primitive_name])

-----------------------------------------------------------------------------
(* First use: the guards that call cls.__initialize_model__()              *)

RECURSIVE CompileWhere(_, _, _)
CompileWhere(sch, attr, types) ==
    IF types = <<>> THEN sch
    ELSE CompileWhere(IF sch[Head(types)][attr].set THEN sch
                      ELSE InitializeModel(sch, Head(types)),
                      attr, Tail(types))

\* the tables an operation runs on when its guard reads attr: those of a
\* class whose attr is still NotImplemented are compiled first
TablesAfterGuard(sch, attr) == CompileWhere(sch, attr, SetAsSeq(DOMAIN sch))

-----------------------------------------------------------------------------
(* The operations of the program, as actions on its state                  *)

\* what an operation left behind for the caller
NoOut ==
    [op |-> "none", type |-> "", role |-> 0, exc |-> "", v |-> None, path |-> <<>>,
     msg |-> "", errors |-> <<>>, events |-> <<>>, names |-> <<>>, raw |-> None,
     eq |-> FALSE]

\* the state after T(raw_data) returned or raised r, having run on tables tab
Constructed(T, raw_data, tab, r) ==
    /\ schema' = CompileWhere(schema, "input_fields", SetAsSeq(r.touched))
    /\ inst' = IF r.exc = "" THEN r.v ELSE inst
    /\ out' = [NoOut EXCEPT !.op = "construct", !.type = T, !.exc = r.exc, !.v = r.v,
                            !.path = r.path, !.msg = r.msg, !.raw = raw_data,
                            !.names = r.converted]
    /\ UNCHANGED <<pc, roles, decl, heap>>

\* instance = T(raw_data)
Construct(T, raw_data) ==
    With(TablesAfterGuard(schema, "input_fields"), LAMBDA tab :
        Constructed(T, raw_data, tab, ModelInit(tab, T, raw_data)))

\* instance.serialize(role)
Serialize(code) ==
    /\ inst # None
    /\ out' = [NoOut EXCEPT !.op = "serialize", !.type = inst.s, !.role = code,
                            !.v = ModelToPrimitive(schema, inst, RoleByCode(code))]
    /\ UNCHANGED <<pc, roles, decl, schema, heap, inst>>

\* instance.validate()
ValidateInstance ==
    /\ inst # None
    /\ LET r == Validate(schema, inst)
       IN out' = [NoOut EXCEPT !.op = "validate", !.type = inst.s, !.exc = r.exc,
                               !.errors = r.errors, !.events = r.events]
    /\ UNCHANGED <<pc, roles, decl, schema, heap, inst>>

\* the state after the two queries ran on the schemas sch
Queried(T, code, sch, fs) ==
    /\ schema' = sch
    /\ out' = [NoOut EXCEPT !.op = "fields_for_role", !.type = T, !.role = code,
                            !.v = ListV([i \in DOMAIN fs |-> StrV(fs[i].name)]),
                            !.names = FieldNamesForRole(sch[T], RoleByCode(code))]
    /\ UNCHANGED <<pc, roles, decl, heap, inst>>

\* T.fields_for_role(role) and T.field_names_for_role(role)
QueryFieldsForRole(T, code) ==
    With(IF ~schema[T].role_fields.set THEN InitializeModel(schema, T) ELSE schema,
         LAMBDA sch : Queried(T, code, sch, FieldsForRole(sch[T], RoleByCode(code))))

-----------------------------------------------------------------------------
(* A program with an inheritance hierarchy and role declarations           *)

Declared(name, f) == [f EXCEPT !.name = name]

Class(bases, fields, serializable, validate, declare_roles, type) ==
    [bases |-> bases, fields |-> fields, serializable |-> serializable,
     validate |-> validate, declare_roles |-> declare_roles, type |-> type]

\* a: int = default
IntDefault(name, default) == Declared(name, InitDefault(BlankField("int"), IntV(default)))

\* @serializable def name(self)
SerializableField(name, fn, hide_none, to_primitive_name) ==
    Declared(name, [FieldNames(BlankField("serializable"), Unset, to_primitive_name)
                        EXCEPT !.serializable = fn, !.hide_none = hide_none])

\* class Base(Model):            a: int = 1;  b: int = 2
\*                               d: int = IntField(to_primitive_name=None, default=4)
\*                               @serializable p
\* class Mixin(Model):           __abstract__ = True;  m: int = 3
\* class Child(Base, Mixin):     c: int
\* each with the declare_roles given
RolesProgram(base_roles, mixin_roles, child_roles) ==
    [T \in {"Base", "Mixin", "Child"} |->
        CASE T = "Base" ->
                Class(<<>>,
                      <<IntDefault("a", 1), IntDefault("b", 2),
                        Declared("d", InitDefault(FieldNames(BlankField("int"), Unset, NoName),
                                                  IntV(4)))>>,
                      <<SerializableField("p", "seven", FALSE, Unset)>>,
                      <<>>, base_roles, "")
          [] T = "Mixin" -> Class(<<>>, <<IntDefault("m", 3)>>, <<>>, <<>>, mixin_roles, "")
          [] T = "Child" ->
                Class(<<"Base", "Mixin">>, <<Declared("c", BlankField("int"))>>, <<>>,
                      <<>>, child_roles, "")]

\* the role registry holds the default role and ExtraRoles more
ExtraRoles == 2
RoleNames == <<"r1", "r2", "r3", "r4">>

RECURSIVE Registry(_, _)
\* the registry after Role(name, empty_by_default=flags[i]) for i = 1..n
Registry(flags, n) ==
    IF n = 0 THEN DefaultRegistry
    ELSE RoleInit(Registry(flags, n - 1), RoleNames[n], flags[n])

\* the declare_roles bodies the program is run with
BaseDeclareRoles == {<<>>, <<Whitelist(1, {"a"}, FALSE)>>, <<Blacklist(2, {"a"}, FALSE)>>}

ChildDeclareRoles ==
    {<<>>, <<Blacklist(0, {"c"}, FALSE)>>}
    \cup {<<Whitelist(1, {"c"}, o)>> : o \in BOOLEAN}
    \cup {<<Blacklist(1, {"a"}, o)>> : o \in BOOLEAN}

\* a declare_roles body of Child that passes r1.whitelist the member descriptor
\* Other.z of a model class outside the hierarchy, next to cls.c
ForeignDeclareRoles == {<<Whitelist(1, {"c", "z"}, FALSE)>>}

\* class Child(Base, Mixin):     a: int = 5;  c: int
\* the same program with a Child that declares the inherited field a again
Redeclaring(program) ==
    [program EXCEPT !["Child"].fields = <<IntDefault("a", 5)>> \o @]

\* the programs that are run: Child defines declare_roles with one of the
\* bodies above, or does not define it, so that the classmethod it inherits
\* from Base yields the requests of Base again, for the descriptors of Child;
\* Child declares the field a again or does not; declare_roles of Child names
\* a descriptor of another class or does not
RolesPrograms ==
    {RolesProgram(b, <<>>, c) : b \in BaseDeclareRoles, c \in ChildDeclareRoles}
    \cup {RolesProgram(b, <<>>, b) : b \in BaseDeclareRoles}
    \cup {Redeclaring(RolesProgram(b, <<>>, c)) :
              b \in BaseDeclareRoles, c \in {<<>>, <<Blacklist(0, {"c"}, FALSE)>>}}
    \cup {RolesProgram(b, <<>>, c) : b \in BaseDeclareRoles, c \in ForeignDeclareRoles}

\* the program: the roles r1, r2, ... are created, then the three class
\* statements run; nothing is compiled, nothing constructed yet
RolesInit ==
    /\ \E flags \in [1..ExtraRoles -> BOOLEAN] : roles = Registry(flags, ExtraRoles)
    /\ decl \in RolesPrograms
    /\ schema = [T \in {"Base", "Mixin", "Child"} |-> Uncompiled]
    /\ heap = <<>>
    /\ inst = None
    /\ out = NoOut
    /\ pc = <<>>

RolesRaw == {DictV(<<Entry("c", IntV(5))>>)}

RolesNext ==
    \/ \E T \in DOMAIN decl, raw \in RolesRaw : Construct(T, raw)
    \/ \E c \in 0..(Len(roles) - 1) : Serialize(c)
    \/ \E T \in DOMAIN decl, c \in 0..(Len(roles) - 1) : QueryFieldsForRole(T, c)

SpecRoles == RolesInit /\ [][RolesNext]_vars

-----------------------------------------------------------------------------
(* A program with nested data: construct, validate, serialize, round trip  *)

RECURSIVE ValueEq(_, _, _)

\* a == b for the values fields hold: numbers compare by value, lists item
\* by item, dicts key by key whatever their order, models by Model.__eq__
ValueEq(tab, a, b) ==
    CASE a.t = "model" /\ b.t = "model" ->
            /\ a.s = b.s
            /\ \A i \in DOMAIN tab[a.s].input_fields.v :
                  ValueEq(tab, GetAttr(a, tab[a.s].input_fields.v[i]),
                          GetAttr(b, tab[a.s].input_fields.v[i]))
      [] a.t = "list" /\ b.t = "list" ->
            /\ Len(a.items) = Len(b.items)
            /\ \A i \in DOMAIN a.items : ValueEq(tab, a.items[i], b.items[i])
      [] a.t = "dict" /\ b.t = "dict" ->
            /\ Len(a.items) = Len(b.items)
            /\ \A i \in DOMAIN a.items : \E j \in DOMAIN b.items :
                  /\ a.items[i].s = b.items[j].s
                  /\ ValueEq(tab, a.items[i].items[1], b.items[j].items[1])
      [] a.t \in {"int", "bool"} /\ b.t \in {"int", "bool"} -> a.n = b.n
      [] a.t \in {"int", "bool"} /\ b.t = "float" -> b.s = "" /\ 2 * a.n = b.n
      [] a.t = "float" /\ b.t \in {"int", "bool"} -> a.s = "" /\ a.n = 2 * b.n
      [] OTHER -> a = b

\* an equality that looks at the fields only
ModelEqAnyType(tab, self, other) ==
    /\ self.t = "model" /\ other.t = "model"
    /\ \A i \in DOMAIN tab[self.s].input_fields.v :
          ValueEq(tab, GetAttr(self, tab[self.s].input_fields.v[i]),
                  GetAttr(other, tab[self.s].input_fields.v[i]))

\* Model.__eq__
ModelEq(tab, self, other) ==
    /\ self.t = "model" /\ other.t = "model"
    /\ self.s = other.s
    /\ \A i \in DOMAIN tab[self.s].input_fields.v :
          ValueEq(tab, GetAttr(self, tab[self.s].input_fields.v[i]),
                  GetAttr(other, tab[self.s].input_fields.v[i]))

\* type(instance)(instance.serialize())
RoundTrip ==
    /\ inst # None
    /\ With(ModelToPrimitive(schema, inst, DEFAULT_ROLE), LAMBDA data :
       With(ModelInit(schema, inst.s, data), LAMBDA r :
          out' = [NoOut EXCEPT !.op = "roundtrip", !.type = inst.s, !.exc = r.exc,
                               !.v = r.v, !.path = r.path, !.msg = r.msg, !.raw = data]))
    /\ UNCHANGED <<pc, roles, decl, schema, heap, inst>>

Optional(f) == [f EXCEPT !.optional = TRUE]

\* ListField(item_field), DictField(key_field, value_field), ModelField(T),
\* DynamicModelField(types): the fields the annotations List[...], Dict[str, ...],
\* T and Union[...] resolve to
ListOf(item) == [BlankField("list") EXCEPT !.sub = <<item>>]
DictOf(value) == [BlankField("dict") EXCEPT !.sub = <<BlankField("str"), value>>]
ModelOf(T) == [BlankField("model") EXCEPT !.types = <<T>>]
UnionOf(types) == [BlankField("union") EXCEPT !.types = types]

\* class Item(Model):    type = 'item'
\*     num: int = IntField(min_value=2, validators=[not_1, not_1_or_2]), with the
\*                         input key 'n' and the output key 'number' when renamed
\*     cnt: int = 5
\*     opt: Optional[int] = IntField(default=7, hide_none=True)
\*     def validate_num(self, value, context): not_1_or_3
\*     def declare_roles(cls): yield r1.whitelist(cls.cnt)
\* class Alt(Model):     type = 'alt';  x: int
\* class Outer(Model):   items: List[Item] = ListField(default=list)
\*                       child: Optional[Item] = None
\*                       by: Dict[str, Item] = DictField(default=dict)
\*                       u: Optional[Union[Item, Alt]] = None, with the output
\*                          key 'union' when renamed
\*     def validate_child(self, value, context): has_cnt
DataProgram(renamed) ==
    [T \in {"Item", "Alt", "Outer"} |->
        CASE T = "Item" ->
                Class(<<>>,
                      <<Declared("num",
                            [FieldNames(SetMinMax(BlankField("int"), 2, Absent),
                                        IF renamed THEN "n" ELSE Unset,
                                        IF renamed THEN "number" ELSE Unset)
                                EXCEPT !.validators = <<"not_1", "not_1_or_2">>]),
                        IntDefault("cnt", 5),
                        Declared("opt", [InitDefault(Optional(BlankField("int")), IntV(7))
                                            EXCEPT !.hide_none = TRUE])>>,
                      <<>>, [n \in {"num"} |-> "not_1_or_3"],
                      <<Whitelist(1, {"cnt"}, FALSE)>>, "item")
          [] T = "Alt" ->
                Class(<<>>, <<Declared("x", BlankField("int"))>>, <<>>, <<>>, <<>>, "alt")
          [] T = "Outer" ->
                Class(<<>>,
                      <<Declared("items", InitDefault(ListOf(ModelOf("Item")),
                                                      ListV(<<>>))),
                        Declared("child", InitDefault(Optional(ModelOf("Item")), None)),
                        Declared("by", InitDefault(DictOf(ModelOf("Item")), DictV(<<>>))),
                        Declared("u", FieldNames(InitDefault(Optional(UnionOf(<<"Item", "Alt">>)),
                                                             None),
                                                 Unset, IF renamed THEN "union" ELSE Unset))>>,
                      <<>>, [n \in {"child"} |-> "has_cnt"], <<>>, "")]

\* r1 = Role('r1');  none = Role('none', empty_by_default=True)
DataRoles == RoleInit(RoleInit(DefaultRegistry, "r1", FALSE), "none", TRUE)

DataInit ==
    /\ roles = DataRoles
    /\ \E renamed \in BOOLEAN : decl = DataProgram(renamed)
    /\ schema = [T \in {"Item", "Alt", "Outer"} |-> Uncompiled]
    /\ heap = <<>>
    /\ inst = None
    /\ out = NoOut
    /\ pc = <<>>

\* the input key of Item.num in the program that runs
NumKey == IF decl["Item"].fields[1].primitive_name = Unset THEN "num"
          ELSE decl["Item"].fields[1].primitive_name

\* a raw map for Item; Missing stands for a key that is left out
ItemRaw(num, cnt, opt) ==
    DictV((IF num = Missing THEN <<>> ELSE <<Entry(NumKey, num)>>)
          \o (IF cnt = Missing THEN <<>> ELSE <<Entry("cnt", cnt)>>)
          \o (IF opt = Missing THEN <<>> ELSE <<Entry("opt", opt)>>))

NumRawValues == {Missing, None, IntV(1), IntV(2), IntV(3), StrV("4"), FloatV(5), Inf}
CntRawValues == {Missing, None, StrV("x")}

ItemRaws ==
    {ItemRaw(num, cnt, Missing) : num \in NumRawValues, cnt \in CntRawValues}
    \cup {ItemRaw(IntV(4), Missing, None)}

\* the raw maps for Item that the raw maps for Outer nest
NestedRaws ==
    {ItemRaw(StrV("4"), Missing, Missing), ItemRaw(IntV(1), None, Missing),
     ItemRaw(Missing, Missing, Missing), ItemRaw(FloatV(5), Missing, Missing),
     ItemRaw(IntV(4), Missing, None)}

Typed(raw, type) == DictV(<<Entry("type", StrV(type))>> \o raw.items)

\* values for Outer.u that are no raw maps: a list, a number, an instance
\* of a candidate model (Alt({'x': 3})) and an instance of another model (Outer())
UnionRaws ==
    {ListV(<<>>), IntV(1), ModelV("Alt", <<Entry("x", IntV(3))>>),
     ModelV("Outer", <<Entry("items", ListV(<<>>)), Entry("child", None),
                       Entry("by", DictV(<<>>)), Entry("u", None)>>)}

\* the model instances a raw map holds were constructed before: their
\* classes are compiled
Exists(raw) ==
    raw.t = "dict" =>
        \A i \in DOMAIN raw.items :
            raw.items[i].items[1].t = "model" =>
                schema[raw.items[i].items[1].s].input_fields.set

OuterRaws ==
    {DictV(<<Entry("items", ListV(<<r>>))>>) : r \in NestedRaws}
    \cup {DictV(<<Entry("child", r)>>) : r \in NestedRaws}
    \cup {DictV(<<Entry("by", DictV(<<Entry("k", r)>>))>>) : r \in NestedRaws}
    \cup {DictV(<<Entry("u", Typed(r, "item"))>>) : r \in NestedRaws}
    \cup {DictV(<<Entry("u", x)>>) : x \in UnionRaws}
    \cup {DictV(<<>>), IntV(1),
          DictV(<<Entry("items", ListV(<<ItemRaw(IntV(4), Missing, Missing),
                                         ItemRaw(Missing, None, Missing),
                                         ItemRaw(IntV(2), Missing, Missing)>>))>>),
          DictV(<<Entry("items", ListV(<<None, ItemRaw(IntV(1), Missing, Missing)>>))>>),
          DictV(<<Entry("by", DictV(<<Entry("j", ItemRaw(Missing, Missing, Missing)),
                                      Entry("k", ItemRaw(IntV(3), None, Missing))>>))>>),
          DictV(<<Entry("items", ListV(<<ItemRaw(IntV(4), Missing, Missing),
                                         ItemRaw(IntV(4), StrV("x"), Missing),
                                         ItemRaw(FloatV(5), Missing, Missing)>>))>>),
          DictV(<<Entry("items", ListV(<<ItemRaw(IntV(4), Missing, Missing), IntV(1),
                                         ItemRaw(FloatV(5), Missing, Missing)>>))>>),
          DictV(<<Entry("by", DictV(<<Entry("j", ItemRaw(IntV(4), Missing, Missing)),
                                      Entry("k", ItemRaw(FloatV(5), Missing, Missing)),
                                      Entry("l", IntV(1))>>))>>),
          DictV(<<Entry("u", DictV(<<Entry("type", StrV("alt")), Entry("x", IntV(1))>>))>>),
          DictV(<<Entry("u", DictV(<<Entry("type", StrV("zzz"))>>))>>),
          DictV(<<Entry("u", DictV(<<Entry("x", IntV(1))>>))>>)}

DataNext ==
    \/ \E raw \in ItemRaws : Construct("Item", raw)
    \/ \E raw \in OuterRaws : Exists(raw) /\ Construct("Outer", raw)
    \/ ValidateInstance
    \/ \E code \in 0..(Len(roles) - 1) : Serialize(code)
    \/ RoundTrip

SpecData == DataInit /\ [][DataNext]_vars

-----------------------------------------------------------------------------
(* A program with fields that are hidden when null or when empty            *)

\* class Leaf(Model):    x: int
\* class Hide(Model):    none: Optional[int] = IntField(hide_none=True, default=None)
\*                       zero: Optional[int] = IntField(hide_zero=True, default=0)
\*                       both: Optional[int] = IntField(hide_none=True, hide_zero=True,
\*                                                      default=1)
\*                       inner: Optional[Leaf] = ModelField(hide_empty=True, default=None)
\*                       req: int
\*                       def declare_roles(cls): yield r1.blacklist(cls.zero)
HideProgram ==
    [T \in {"Leaf", "Hide"} |->
        IF T = "Leaf"
        THEN Class(<<>>, <<Declared("x", BlankField("int"))>>, <<>>, <<>>, <<>>, "")
        ELSE Class(<<>>,
                   <<Declared("none", [InitDefault(Optional(BlankField("int")), None)
                                          EXCEPT !.hide_none = TRUE]),
                     Declared("zero", [InitDefault(Optional(BlankField("int")), IntV(0))
                                          EXCEPT !.hide_empty = TRUE]),
                     Declared("both", [InitDefault(Optional(BlankField("int")), IntV(1))
                                          EXCEPT !.hide_none = TRUE, !.hide_empty = TRUE]),
                     Declared("inner", [InitDefault(Optional(ModelOf("Leaf")), None)
                                          EXCEPT !.hide_empty = TRUE]),
                     Declared("req", BlankField("int"))>>,
                   <<>>, <<>>, <<Blacklist(1, {"zero"}, FALSE)>>, "")]

HideInit ==
    /\ roles = DataRoles
    /\ decl = HideProgram
    /\ schema = [T \in {"Leaf", "Hide"} |-> Uncompiled]
    /\ heap = <<>>
    /\ inst = None
    /\ out = NoOut
    /\ pc = <<>>

\* a raw map for Hide; Missing stands for a key that is left out
HideRaw(entries) ==
    DictV(SelectSeq(entries, LAMBDA e : e.items[1] # Missing))

HideRaws ==
    {HideRaw(<<Entry("none", n), Entry("zero", z), Entry("both", b), Entry("inner", i),
               Entry("req", r)>>) :
        n \in {Missing, IntV(0)}, z \in {Missing, None, IntV(2)},
        b \in {None, IntV(0), IntV(1)},
        i \in {Missing, DictV(<<>>), DictV(<<Entry("x", IntV(1))>>)},
        r \in {Missing, IntV(0)}}

HideNext ==
    \/ \E raw \in HideRaws : Construct("Hide", raw)
    \/ \E code \in 0..(Len(roles) - 1) : Serialize(code)

SpecHide == HideInit /\ [][HideNext]_vars

-----------------------------------------------------------------------------
(* A program that compares instances                                        *)

\* class Leaf(Model):      n: int = 0
\*                         tags: Dict[str, int] = DictField(default=dict)
\*                         @serializable def p(self): seven
\* class Dried(Leaf):      pass
\* class Aged(Leaf):       age: int = 4
EqProgram ==
    [T \in {"Leaf", "Dried", "Aged"} |->
        CASE T = "Leaf" ->
                Class(<<>>,
                      <<IntDefault("n", 0),
                        Declared("tags", InitDefault(DictOf(BlankField("int")), DictV(<<>>)))>>,
                      <<SerializableField("p", "seven", FALSE, Unset)>>, <<>>, <<>>, "")
          [] T = "Dried" -> Class(<<"Leaf">>, <<>>, <<>>, <<>>, <<>>, "")
          [] T = "Aged" -> Class(<<"Leaf">>, <<IntDefault("age", 4)>>, <<>>, <<>>, <<>>, "")]

EqInit ==
    /\ roles = DefaultRegistry
    /\ decl = EqProgram
    /\ schema = [T \in {"Leaf", "Dried", "Aged"} |-> Uncompiled]
    /\ heap = <<>>
    /\ inst = None
    /\ out = NoOut
    /\ pc = <<>>

EqRaws ==
    {DictV(<<>>), DictV(<<Entry("n", IntV(1))>>), DictV(<<Entry("n", StrV("1"))>>),
     DictV(<<Entry("tags", DictV(<<Entry("k", IntV(1)), Entry("z", IntV(2))>>))>>),
     DictV(<<Entry("tags", DictV(<<Entry("z", IntV(2)), Entry("k", IntV(1))>>))>>),
     DictV(<<Entry("tags", DictV(<<Entry("k", IntV(1)), Entry("z", IntV(3))>>))>>)}

\* the state after instance == other was evaluated on tables tab
Compared(sch, tab, other, raw_data) ==
    /\ schema' = sch
    /\ out' = [NoOut EXCEPT !.op = "eq", !.type = inst.s, !.v = other, !.raw = raw_data,
                            !.eq = ModelEq(tab, inst, other)]
    /\ UNCHANGED <<pc, roles, decl, heap, inst>>

\* instance == T(raw_data)
Compare(T, raw_data) ==
    /\ inst # None
    /\ With(TablesAfterGuard(schema, "input_fields"), LAMBDA tab :
       With(ModelInit(tab, T, raw_data), LAMBDA r :
          /\ r.exc = ""
          /\ Compared(CompileWhere(schema, "input_fields", SetAsSeq(r.touched)), tab,
                      r.v, raw_data)))

\* instance == other for an other that is no model instance
CompareTo(other) ==
    /\ inst # None
    /\ Compared(schema, schema, other, None)

EqNext ==
    \/ \E T \in DOMAIN decl, raw \in EqRaws : Construct(T, raw)
    \/ \E T \in DOMAIN decl, raw \in EqRaws : Compare(T, raw)
    \/ \E other \in {None, IntV(1)} : CompareTo(other)

SpecEq == EqInit /\ [][EqNext]_vars

-----------------------------------------------------------------------------
(* Copying.  Lists, dicts and model instances are objects of the heap; a    *)
(* value that is one of them is held as a reference to its address.         *)

Ref(a) == Val("ref", a, "", <<>>)

\* a new object: the heap with it, and the reference to it
Alloc(h, obj) == [heap |-> Append(h, obj), cell |-> Ref(Len(h) + 1)]

RECURSIVE Store(_, _)
RECURSIVE StoreItems(_, _, _, _)

\* the objects a constructed value consists of, laid out in the heap
Store(h, value) ==
    IF value.t \in {"list", "dict", "model"}
    THEN With(StoreItems(h, value.items, 1, <<>>), LAMBDA r :
            Alloc(r.heap, [value EXCEPT !.items = r.cells]))
    ELSE [heap |-> h, cell |-> value]

StoreItems(h, items, i, acc) ==
    IF i > Len(items) THEN [heap |-> h, cells |-> acc]
    ELSE IF items[i].t = "entry"
    THEN With(Store(h, items[i].items[1]), LAMBDA r :
            StoreItems(r.heap, items, i + 1, Append(acc, Entry(items[i].s, r.cell))))
    ELSE With(Store(h, items[i]), LAMBDA r :
            StoreItems(r.heap, items, i + 1, Append(acc, r.cell)))

RECURSIVE Deref(_, _)
\* the value a cell stands for, with every reference followed
Deref(h, c) ==
    IF c.t = "ref"
    THEN [h[c.n] EXCEPT !.items = [i \in DOMAIN h[c.n].items |-> Deref(h, h[c.n].items[i])]]
    ELSE IF c.t = "entry" THEN Entry(c.s, Deref(h, c.items[1]))
    ELSE c

RECURSIVE Reach(_, _)
\* the addresses of the objects reachable from a cell
Reach(h, c) ==
    IF c.t = "ref"
    THEN {c.n} \cup UNION {Reach(h, h[c.n].items[i]) : i \in DOMAIN h[c.n].items}
    ELSE IF c.t = "entry" THEN Reach(h, c.items[1])
    ELSE {}

RECURSIVE DeepCopy(_, _)
RECURSIVE DeepCopyItems(_, _, _, _)

\* copy.deepcopy(value)
DeepCopy(h, c) ==
    IF c.t = "ref"
    THEN With(DeepCopyItems(h, h[c.n].items, 1, <<>>), LAMBDA r :
            Alloc(r.heap, [h[c.n] EXCEPT !.items = r.cells]))
    ELSE [heap |-> h, cell |-> c]

DeepCopyItems(h, items, i, acc) ==
    IF i > Len(items) THEN [heap |-> h, cells |-> acc]
    ELSE IF items[i].t = "entry"
    THEN With(DeepCopy(h, items[i].items[1]), LAMBDA r :
            DeepCopyItems(r.heap, items, i + 1, Append(acc, Entry(items[i].s, r.cell))))
    ELSE With(DeepCopy(h, items[i]), LAMBDA r :
            DeepCopyItems(r.heap, items, i + 1, Append(acc, r.cell)))

RECURSIVE CopyValue(_, _, _)
RECURSIVE CopyItems(_, _, _, _, _)
RECURSIVE CopyModel(_, _, _)
RECURSIVE CopyAttrs(_, _, _, _, _)

\* [item_copy(item) for item in value] and {key: copy(val) for key, val in value.items()}
CopyItems(h, f, items, i, acc) ==
    IF i > Len(items) THEN [heap |-> h, cells |-> acc]
    ELSE IF items[i].t = "entry"
    THEN With(CopyValue(h, f, items[i].items[1]), LAMBDA r :
            CopyItems(r.heap, f, items, i + 1, Append(acc, Entry(items[i].s, r.cell))))
    ELSE With(CopyValue(h, f, items[i]), LAMBDA r :
            CopyItems(r.heap, f, items, i + 1, Append(acc, r.cell)))

CopyValueSharedItems(h, f, c) ==
    CASE f.kind = "any" -> DeepCopy(h, c)
      [] c \in {None, Missing} -> [heap |-> h, cell |-> c]
      [] f.kind \in {"list", "dict"} -> Alloc(h, h[c.n])
      [] f.kind \in {"model", "union"} -> CopyModel(h, c, TRUE)
      [] OTHER -> [heap |-> h, cell |-> c]

\* the copy_value method of the field's type
CopyValue(h, f, c) ==
    CASE f.kind = "any" -> DeepCopy(h, c)
      [] c \in {None, Missing} -> [heap |-> h, cell |-> c]
      [] f.kind = "list" ->
            IF Atomic(f.sub[1]) THEN Alloc(h, h[c.n])                 \* list(value)
            ELSE With(CopyItems(h, f.sub[1], h[c.n].items, 1, <<>>), LAMBDA r :
                    Alloc(r.heap, ListV(r.cells)))
      [] f.kind = "dict" ->
            IF Atomic(f.sub[2]) THEN Alloc(h, h[c.n])                 \* dict(value)
            ELSE With(CopyItems(h, f.sub[2], h[c.n].items, 1, <<>>), LAMBDA r :
                    Alloc(r.heap, DictV(r.cells)))
      [] f.kind \in {"model", "union"} -> CopyModel(h, c, TRUE)   \* value.copy(deep=True)
      [] OTHER -> [heap |-> h, cell |-> c]                           \* Field.copy_value

\* Model.copy, lines 205-209: the loop over __input_fields__ from entry i
CopyAttrs(h, self, deep, i, acc) ==
    IF i > Len(schema[self.s].input_fields.v) THEN [heap |-> h, cells |-> acc]
    ELSE With(InputFields(schema[self.s])[i], LAMBDA cfg :
         With(IF deep /\ cfg.copy_value
              THEN CopyValue(h, cfg.field, GetAttr(self, cfg.name))
              ELSE [heap |-> h, cell |-> GetAttr(self, cfg.name)], LAMBDA r :
            CopyAttrs(r.heap, self, deep, i + 1, Append(acc, Entry(cfg.name, r.cell)))))

\* Model.copy(deep) of the instance at cell c
CopyModel(h, c, deep) ==
    With(CopyAttrs(h, h[c.n], deep, 1, <<>>), LAMBDA r :
        Alloc(r.heap, ModelV(h[c.n].s, r.cells)))

\* what the copying program keeps: whether and how it copied, the copy y, the
\* value of x when it was copied, through which of x and y it mutated since,
\* and how many mutations it made in all
NoCopy == [op |-> "none", deep |-> FALSE, y |-> None, before |-> None, via |-> <<>>,
           count |-> 0]

\* y = x.copy(deep)
Copy(deep) ==
    /\ out.op = "none"
    /\ With(CopyModel(heap, inst, deep), LAMBDA r :
          /\ heap' = r.heap
          /\ out' = [out EXCEPT !.op = "copy", !.deep = deep, !.y = r.cell,
                                !.before = Deref(heap, inst)])
    /\ UNCHANGED <<pc, roles, decl, schema, inst>>

\* the program mutates at most this many times
MaxMutations == 2

\* x, or y once it exists
Root(via) == IF via = "x" THEN inst ELSE out.y

\* the state after the object at address a was replaced
Mutated(via, a, obj) ==
    /\ heap' = [heap EXCEPT ![a] = obj]
    /\ out' = [out EXCEPT !.count = @ + 1,
                          !.via = IF out.op = "copy" THEN Append(@, via) ELSE @]
    /\ UNCHANGED <<pc, roles, decl, schema, inst>>

\* the object holds an atom and atoms only, so that another atom is of its item type
HoldsAtoms(obj) ==
    /\ obj.items # <<>>
    /\ \A i \in DOMAIN obj.items :
        obj.items[i].t # "ref" /\ (obj.items[i].t = "entry" => obj.items[i].items[1].t # "ref")

\* root.<...>.append(9) on a list of atoms reachable from x or from y
ListAppend(via, a) ==
    /\ out.count < MaxMutations
    /\ a \in Reach(heap, Root(via))
    /\ heap[a].t = "list" /\ HoldsAtoms(heap[a])
    /\ Mutated(via, a, [heap[a] EXCEPT !.items = Append(@, IntV(9))])

\* root.<...>.pop() on a non-empty list reachable from x or from y
ListPop(via, a) ==
    /\ out.count < MaxMutations
    /\ a \in Reach(heap, Root(via))
    /\ heap[a].t = "list" /\ heap[a].items # <<>>
    /\ Mutated(via, a, [heap[a] EXCEPT !.items = SubSeq(@, 1, Len(@) - 1)])

\* root.<...>['z'] = 9 on a dict of atoms reachable from x or from y
DictSetItem(via, a) ==
    /\ out.count < MaxMutations
    /\ a \in Reach(heap, Root(via))
    /\ heap[a].t = "dict" /\ HoldsAtoms(heap[a])
    /\ Mutated(via, a, [heap[a] EXCEPT !.items = DictSet(@, "z", IntV(9))])

\* root.<...>.clear() on a non-empty dict reachable from x or from y
DictClear(via, a) ==
    /\ out.count < MaxMutations
    /\ a \in Reach(heap, Root(via))
    /\ heap[a].t = "dict" /\ heap[a].items # <<>>
    /\ Mutated(via, a, [heap[a] EXCEPT !.items = <<>>])

\* root.<...>.n = 9 on a model reachable from x or from y (x and y included)
SetAttr(via, a) ==
    /\ out.count < MaxMutations
    /\ a \in Reach(heap, Root(via))
    /\ heap[a].t = "model"
    /\ Mutated(via, a, [heap[a] EXCEPT !.items = DictSet(@, "n", IntV(9))])

\* class Leaf(Model):   n: int = 0
\* class Box(Model):    n: int = 0
\*                      nums: List[int] = ListField(default=list)
\*                      leaves: List[Leaf] = ListField(default=list)
\*                      by: Dict[str, List[int]] = DictField(default=dict)
\*                      leaf: Optional[Leaf] = None
\*                      extra: Any = None
CopyProgram ==
    [T \in {"Leaf", "Box"} |->
        CASE T = "Leaf" -> Class(<<>>, <<IntDefault("n", 0)>>, <<>>, <<>>, <<>>, "")
          [] T = "Box" ->
                Class(<<>>,
                      <<IntDefault("n", 0),
                        Declared("nums", InitDefault(ListOf(BlankField("int")), ListV(<<>>))),
                        Declared("leaves", InitDefault(ListOf(ModelOf("Leaf")), ListV(<<>>))),
                        Declared("by", InitDefault(DictOf(ListOf(BlankField("int"))),
                                                   DictV(<<>>))),
                        Declared("leaf", InitDefault(Optional(ModelOf("Leaf")), None)),
                        Declared("extra", InitDefault(Optional(BlankField("any")), None))>>,
                      <<>>, <<>>, <<>>, "")]

CopyRaws ==
    {DictV(<<Entry("nums", ListV(<<IntV(1)>>)),
             Entry("leaves", ListV(<<DictV(<<Entry("n", IntV(1))>>)>>)),
             Entry("by", DictV(<<Entry("k", ListV(<<IntV(1)>>))>>)),
             Entry("leaf", DictV(<<Entry("n", IntV(2))>>)),
             Entry("extra", ListV(<<ListV(<<IntV(1)>>)>>))>>),
     DictV(<<Entry("leaves", ListV(<<DictV(<<>>), DictV(<<>>)>>)),
             Entry("extra", DictV(<<Entry("k", IntV(1))>>))>>)}

\* the compiled schemas and the instance x = Box(raw) of the program
CopySchemas(program) ==
    [T \in DOMAIN program |-> Uncompiled]

CopyInit ==
    /\ roles = DefaultRegistry
    /\ decl = CopyProgram
    /\ schema = CompileWhere(CopySchemas(CopyProgram), "input_fields", <<"Leaf", "Box">>)
    /\ \E raw \in CopyRaws :
          With(Store(<<>>, ModelInit(schema, "Box", raw).v), LAMBDA r :
              heap = r.heap /\ inst = r.cell)
    /\ out = NoCopy
    /\ pc = <<>>

CopyNext ==
    \/ \E deep \in BOOLEAN : Copy(deep)
    \/ \E via \in {"x", "y"}, a \in DOMAIN heap : ListAppend(via, a)
    \/ \E via \in {"x", "y"}, a \in DOMAIN heap : ListPop(via, a)
    \/ \E via \in {"x", "y"}, a \in DOMAIN heap : DictSetItem(via, a)
    \/ \E via \in {"x", "y"}, a \in DOMAIN heap : DictClear(via, a)
    \/ \E via \in {"x", "y"}, a \in DOMAIN heap : SetAttr(via, a)

SpecCopy == CopyInit /\ [][CopyNext]_vars

-----------------------------------------------------------------------------
(* Concurrent first use.  Several threads make the first use of the model   *)
(* type Base; cls.__initialize_model__() runs statement by statement, each  *)
(* assignment to a class attribute being one step of the thread.            *)

\* the number of threads of the concurrent programs
NumThreads == 2
Threads == 1..NumThreads

\* a thread: the statement it is at, the operation it runs, its loop index
Idle == [at |-> "idle", op |-> "", k |-> 0]

FirstUseType == "Base"

\* the tables cls.__initialize_model__() computes for the class
Compiled(T) == InitializeModel([U \in DOMAIN decl |-> Uncompiled], T)[T]

\* `for role, finalized in roles.items()`: the roles in iteration order
RoleOrder(T) == SetAsSeq(DOMAIN Compiled(T).roles.v)

\* what a thread read: the attributes of the class at the moment of the read
Read(t) == [op |-> "read", thread |-> t, seen |-> schema[FirstUseType]]

\* the state after thread t moved on, having assigned the class attribute
Assigned(t, at, attr, value) ==
    /\ schema' = [schema EXCEPT ![FirstUseType][attr] = SetTo(value)]
    /\ pc' = [pc EXCEPT ![t].at = at]
    /\ UNCHANGED <<roles, decl, heap, inst, out>>

\* a thread calls Base(raw) or Base.fields_for_role(role)
Call(t, op) ==
    /\ pc[t].at \in {"idle", "done"}
    /\ pc' = [pc EXCEPT ![t] = [Idle EXCEPT !.at = "guard", !.op = op]]
    /\ UNCHANGED <<roles, decl, schema, heap, inst, out>>

\* Model.__init__ line 40 / Model.fields_for_role line 219: the guard
ReadGuard(t) ==
    /\ pc[t].at = "guard"
    /\ pc' = [pc EXCEPT ![t].at =
                IF schema[FirstUseType][IF pc[t].op = "construct" THEN "input_fields"
                                        ELSE "role_fields"].set
                THEN "use" ELSE "105"]
    /\ UNCHANGED <<roles, decl, schema, heap, inst, out>>

\* ModelMeta._initialize_model, line 105
AssignInputFields(t) ==
    /\ pc[t].at = "105"
    /\ Assigned(t, "106", "input_fields", Compiled(FirstUseType).input_fields.v)

\* ModelMeta._initialize_model, line 106
AssignValidatedFields(t) ==
    /\ pc[t].at = "106"
    /\ Assigned(t, "107", "validated_fields", Compiled(FirstUseType).validated_fields.v)

\* ModelMeta._initialize_model, line 107
AssignFields(t) ==
    /\ pc[t].at = "107"
    /\ Assigned(t, "197", "fields", Compiled(FirstUseType).fields.v)

\* ModelMeta._build_roles, line 197: every table is the default field list
AssignRoleFields(t) ==
    /\ pc[t].at = "197"
    /\ Assigned(t, "198", "role_fields",
                [i \in DOMAIN Compiled(FirstUseType).role_fields.v |->
                    BuildRoleFields(Compiled(FirstUseType).fields.v, <<>>)[1]])

\* ModelMeta._build_roles, line 198
AssignRoles(t) ==
    /\ pc[t].at = "198"
    /\ schema' = [schema EXCEPT ![FirstUseType].roles = SetTo(<<>>)]
    /\ pc' = [pc EXCEPT ![t].at = "200", ![t].k = 1]
    /\ UNCHANGED <<roles, decl, heap, inst, out>>

\* ModelMeta._build_roles, lines 200-205: the table of the next declared role
AssignRoleTable(t) ==
    /\ pc[t].at = "200"
    /\ pc[t].k <= Len(RoleOrder(FirstUseType))
    /\ With(RoleOrder(FirstUseType)[pc[t].k], LAMBDA code :
          schema' = [schema EXCEPT ![FirstUseType].role_fields.v[code + 1] =
                                      Compiled(FirstUseType).role_fields.v[code + 1]])
    /\ pc' = [pc EXCEPT ![t].at = "206"]
    /\ UNCHANGED <<roles, decl, heap, inst, out>>

\* ModelMeta._build_roles, line 206
AppendRole(t) ==
    /\ pc[t].at = "206"
    /\ With(RoleOrder(FirstUseType)[pc[t].k], LAMBDA code :
          schema' = [schema EXCEPT ![FirstUseType].roles.v =
                        [c \in DOMAIN @ \cup {code} |->
                            Compiled(FirstUseType).roles.v[c]]])
    /\ pc' = [pc EXCEPT ![t].at = "200", ![t].k = @ + 1]
    /\ UNCHANGED <<roles, decl, heap, inst, out>>

\* ModelMeta._build_roles returns, and with it cls.__initialize_model__()
Initialized(t) ==
    /\ pc[t].at = "200"
    /\ pc[t].k > Len(RoleOrder(FirstUseType))
    /\ pc' = [pc EXCEPT ![t].at = "use"]
    /\ UNCHANGED <<roles, decl, schema, heap, inst, out>>

\* the rest of the operation reads the tables of the class: Model.__init__
\* line 46 onwards and what follows on the instance (validate, serialize);
\* Model.fields_for_role lines 221-224
Use(t) ==
    /\ pc[t].at = "use"
    /\ out' = Read(t)
    /\ pc' = [pc EXCEPT ![t].at = "done"]
    /\ UNCHANGED <<roles, decl, schema, heap, inst>>

\* r1 = Role('r1'); ...;  class Base(Model) with declare_roles yielding
\* r1.whitelist(cls.a); then the threads start
FirstUseInit ==
    /\ roles = Registry([i \in 1..ExtraRoles |-> FALSE], ExtraRoles)
    /\ decl = RolesProgram(<<Whitelist(1, {"a"}, FALSE)>>, <<>>, <<>>)
    /\ schema = [T \in {"Base", "Mixin", "Child"} |-> Uncompiled]
    /\ heap = <<>>
    /\ inst = None
    /\ out = NoOut
    /\ pc = [t \in Threads |-> Idle]

FirstUseNext ==
    \E t \in Threads :
        \/ \E op \in {"construct", "fields_for_role"} : Call(t, op)
        \/ ReadGuard(t)
        \/ AssignInputFields(t)
        \/ AssignValidatedFields(t)
        \/ AssignFields(t)
        \/ AssignRoleFields(t)
        \/ AssignRoles(t)
        \/ AssignRoleTable(t)
        \/ AppendRole(t)
        \/ Initialized(t)
        \/ Use(t)

SpecFirstUse == FirstUseInit /\ [][FirstUseNext]_vars

-----------------------------------------------------------------------------
(* Concurrent Role creation.  Each thread runs Role(name, empty_by_default) *)
(* statement by statement; _roles_lock is held by the thread that is inside *)
(* the with block.                                                          *)

\* the number of roles each thread creates
MaxRoles == 3

\* a thread: the statement it is at, the Role under construction and the
\* Role objects it has created
Creator == [at |-> "idle", self |-> <<>>, made |-> <<>>]

\* a registry without a lock
NoLock == FALSE

\* _roles_lock is held: some thread is inside `with _roles_lock:`
RolesLockHeld == \E t \in Threads : pc[t].at \in {"22", "23", "exit"}

\* Role.__init__, lines 19-20: self.name, self.empty_by_default
NewRole(t, name, empty_by_default) ==
    /\ pc[t].at = "idle"
    /\ Len(pc[t].made) < MaxRoles
    /\ pc' = [pc EXCEPT ![t].at = "21",
                        ![t].self = [name |-> name, empty_by_default |-> empty_by_default]]
    /\ UNCHANGED <<roles, decl, schema, heap, inst, out>>

\* Role.__init__, line 21: `with _roles_lock:` acquires the lock
Acquire(t) ==
    /\ pc[t].at = "21"
    /\ ~RolesLockHeld
    /\ pc' = [pc EXCEPT ![t].at = "22"]
    /\ UNCHANGED <<roles, decl, schema, heap, inst, out>>

\* Role.__init__, line 22: self.code = len(_roles)
AssignCode(t) ==
    /\ pc[t].at = "22"
    /\ pc' = [pc EXCEPT ![t].at = "23",
                        ![t].self = [name |-> @.name, empty_by_default |-> @.empty_by_default,
                                     code |-> Len(roles)]]
    /\ UNCHANGED <<roles, decl, schema, heap, inst, out>>

\* Role.__init__, line 23: _roles.append(self)
AppendSelf(t) ==
    /\ pc[t].at = "23"
    /\ roles' = Append(roles, pc[t].self)
    /\ pc' = [pc EXCEPT ![t].at = "exit"]
    /\ UNCHANGED <<decl, schema, heap, inst, out>>

\* the with block is left, the lock released, and Role(...) returns self
Release(t) ==
    /\ pc[t].at = "exit"
    /\ pc' = [pc EXCEPT ![t].at = "idle", ![t].self = <<>>,
                        ![t].made = Append(@, pc[t].self)]
    /\ UNCHANGED <<roles, decl, schema, heap, inst, out>>

\* the module is imported (DEFAULT_ROLE = Role('default')), then the threads start
RegistryInit ==
    /\ roles = DefaultRegistry
    /\ decl = <<>>
    /\ schema = <<>>
    /\ heap = <<>>
    /\ inst = None
    /\ out = NoOut
    /\ pc = [t \in Threads |-> Creator]

RegistryNext ==
    \E t \in Threads :
        \/ NewRole(t, RoleNames[t], t % 2 = 0)
        \/ Acquire(t)
        \/ AssignCode(t)
        \/ AppendSelf(t)
        \/ Release(t)

SpecRegistry == RegistryInit /\ [][RegistryNext]_vars

-----------------------------------------------------------------------------
(* Properties of construct / validate / serialize, checked under SpecData  *)

IsPrefix(p, q) == Len(p) <= Len(q) /\ SubSeq(q, 1, Len(p)) = p

RECURSIVE Slots(_, _, _)
RECURSIVE SlotsIn(_, _, _, _)

\* the input fields of the models held in value, a value of field f at path
SlotsIn(tab, f, value, path) ==
    CASE value.t = "model" -> Slots(tab, value, path)
      [] value.t = "list" /\ f.kind = "list" ->
            UNION {SlotsIn(tab, f.sub[1], value.items[i], Append(path, IntToStr(i - 1))) :
                      i \in DOMAIN value.items}
      [] value.t = "dict" /\ f.kind = "dict" ->
            UNION {SlotsIn(tab, f.sub[2], value.items[i].items[1],
                           Append(path, value.items[i].s)) : i \in DOMAIN value.items}
      [] OTHER -> {}

\* every input field of the instance and of the models nested in it: the path
\* validation reports it at, the field, and the value it holds
Slots(tab, self, prefix) ==
    UNION {With(FieldNamed(tab[self.s], tab[self.s].input_fields.v[i]), LAMBDA f :
           With(Append(prefix, MakeValidatedConfig(f).input_name), LAMBDA path :
              {[path |-> path, field |-> f, value |-> GetAttr(self, f.name)]}
              \cup SlotsIn(tab, f, GetAttr(self, f.name), path))) :
             i \in DOMAIN tab[self.s].input_fields.v}

\* the value must be reported as required: Missing, or null in a field that
\* is not nullable
Absentee(slot) ==
    slot.value = Missing \/ (slot.value = None /\ ~slot.field.allow_none)

\* C1: for every input field that holds Missing, or null while not nullable,
\* validate() reports exactly one error, 'This field is required' at the
\* field's path, and runs neither the native rule, nor the validate_<field>
\* method, nor any validator callable on that value.
C1_RequiredOnly ==
    out.op = "validate" =>
        \A slot \in Slots(schema, inst, <<>>) : Absentee(slot) =>
            /\ SelectSeq(out.events, LAMBDA e : IsPrefix(slot.path, e.path))
                  = <<Event(slot.path, "required", "This field is required")>>
            /\ SelectSeq(out.errors, LAMBDA e : IsPrefix(slot.path, e.path))
                  = <<[path |-> slot.path, msg |-> "This field is required"]>>

\* validate() ran on an instance with a Missing field that has validators and
\* a method, and with a nested null in a field that is not nullable
C1_Witness ==
    /\ out.op = "validate"
    /\ \E slot \in Slots(schema, inst, <<>>) :
          /\ slot.value = Missing
          /\ Len(slot.path) > 1
          /\ slot.field.validators # <<>>
          /\ slot.field.validator_method # NoName
          /\ slot.field.native_validate # NoName
    /\ \E slot \in Slots(schema, inst, <<>>) :
          slot.value = None /\ ~slot.field.allow_none /\ Len(slot.path) > 1

\* C2: if validate() returns without raising, no input field of the instance
\* or of a model nested in it through list, dict, nested-model or union
\* fields holds Missing, and no field that is not nullable holds null.
C2_ValidHasNoHoles ==
    (out.op = "validate" /\ out.exc = "") =>
        \A slot \in Slots(schema, inst, <<>>) : ~Absentee(slot)

\* validate() passed on an instance that holds a nested model and a null in a
\* nullable field
C2_Witness ==
    /\ out.op = "validate" /\ out.exc = ""
    /\ \E slot \in Slots(schema, inst, <<>>) : Len(slot.path) > 1
    /\ \E slot \in Slots(schema, inst, <<>>) : slot.value = None /\ slot.field.allow_none

\* the entries of the validation table whose field is invalid on its own
InvalidEntries(tab, self) ==
    {i \in DOMAIN tab[self.s].validated_fields.v :
        ErrorsOf(ValidatedFieldEvents(tab, self, ValidatedFields(tab[self.s])[i])) # <<>>}

\* the position in the validation table of the field an error belongs to
EntryOf(tab, self, error) ==
    CHOOSE i \in DOMAIN tab[self.s].validated_fields.v :
        ValidatedFields(tab[self.s])[i].input_name = error.path[1]

\* C3: validate() never stops at the first failure: every field that is
\* invalid on its own has at least one error in the raised ValidationError,
\* and the errors are listed in field declaration order.
C3_AllFieldsReported ==
    out.op = "validate" =>
        /\ \A i \in InvalidEntries(schema, inst) :
              \E k \in DOMAIN out.errors : EntryOf(schema, inst, out.errors[k]) = i
        /\ \A k, l \in DOMAIN out.errors :
              k < l => EntryOf(schema, inst, out.errors[k]) <= EntryOf(schema, inst, out.errors[l])
        /\ (InvalidEntries(schema, inst) # {}) = (out.exc = "ValidationError")

\* validate() ran on an instance with two fields that are invalid on their own
C3_Witness ==
    /\ out.op = "validate"
    /\ Cardinality(InvalidEntries(schema, inst)) >= 2
    /\ Len(out.errors) >= 3

\* the raw value Model.__init__ hands to the convert of the i-th input field
RawOf(tab, T, raw_data, i) ==
    With(InputFields(tab[T])[i], LAMBDA cfg :
        IF cfg.primitive_name = NoName THEN Missing
        ELSE DictGet(raw_data.items, cfg.primitive_name, Missing))

\* the input fields whose own conversion of the raw value fails
FailingInputs(tab, T, raw_data) ==
    {i \in DOMAIN tab[T].input_fields.v :
        ConvertField(tab, InputFields(tab[T])[i].field, RawOf(tab, T, raw_data, i)).exc # ""}

\* C4: construct(raw) converts the fields in declaration order and aborts at
\* the first field whose conversion fails: it raises a ConversionError with
\* one (path, message) entry whose path starts with that field's input key,
\* and no field declared after it is converted or reported.
C4_FailFast ==
    (out.op = "construct" /\ out.raw.t = "dict"
        /\ FailingInputs(schema, out.type, out.raw) # {}) =>
        With(CHOOSE i \in FailingInputs(schema, out.type, out.raw) :
                \A j \in FailingInputs(schema, out.type, out.raw) : i <= j, LAMBDA first :
            /\ out.exc = "ConversionError"
            /\ out.path # <<>>
            /\ out.path[1] = InputFields(schema[out.type])[first].primitive_name
            /\ out.names = [i \in 1..first |-> schema[out.type].input_fields.v[i]])

RECURSIVE OmitsNothing(_, _, _)
RECURSIVE OmitsNothingIn(_, _, _, _)

\* no model held in value, a value of field f, has a field that data omits
OmitsNothingIn(tab, f, value, data) ==
    CASE value.t = "model" -> data.t = "dict" /\ OmitsNothing(tab, value, data)
      [] value.t = "list" /\ f.kind = "list" ->
            /\ data.t = "list" /\ Len(data.items) = Len(value.items)
            /\ \A i \in DOMAIN value.items :
                  OmitsNothingIn(tab, f.sub[1], value.items[i], data.items[i])
      [] value.t = "dict" /\ f.kind = "dict" ->
            /\ data.t = "dict" /\ Len(data.items) = Len(value.items)
            /\ \A i \in DOMAIN value.items :
                  OmitsNothingIn(tab, f.sub[2], value.items[i].items[1],
                                 data.items[i].items[1])
      [] OTHER -> TRUE

\* the serialization data of the instance has a key for every input field,
\* at every nesting level
OmitsNothing(tab, self, data) ==
    \A i \in DOMAIN tab[self.s].input_fields.v :
        With(FieldNamed(tab[self.s], tab[self.s].input_fields.v[i]), LAMBDA f :
            /\ f.to_primitive_name # NoName
            /\ f.to_primitive_name \in SeqToSet(DictKeys(data.items))
            /\ OmitsNothingIn(tab, f, GetAttr(self, f.name),
                              DictGet(data.items, f.to_primitive_name, Missing)))

\* every field of the instance and of the models nested in it is written
\* under the key it is read from
KeysAgree(tab, self) ==
    \A slot \in Slots(tab, self, <<>>) :
        slot.field.primitive_name = slot.field.to_primitive_name

\* C6 (as amended): for every instance x produced by construct that passes
\* validate(), whose default-role serialization omits no field, and whose
\* fields all have an output key equal to their input key, at every nesting
\* level, construct(serialize(x)) == x.
C6_RoundTrip ==
    (/\ out.op = "roundtrip"
     /\ Validate(schema, inst).exc = ""
     /\ OmitsNothing(schema, inst, out.raw)
     /\ KeysAgree(schema, inst)) =>
        (out.exc = "" /\ ModelEq(schema, out.v, inst))

\* C6 (as stated): for every instance x produced by construct that passes
\* validate() and whose default-role serialization omits no field,
\* construct(serialize(x)) == x.
C6_AsStated ==
    (/\ out.op = "roundtrip"
     /\ Validate(schema, inst).exc = ""
     /\ OmitsNothing(schema, inst, out.raw)) =>
        (out.exc = "" /\ ModelEq(schema, out.v, inst))

\* a valid instance holding a union member went the round trip
C6_Witness ==
    /\ out.op = "roundtrip"
    /\ Validate(schema, inst).exc = ""
    /\ OmitsNothing(schema, inst, out.raw)
    /\ KeysAgree(schema, inst)
    /\ inst.s = "Outer"
    /\ GetAttr(inst, "u").t = "model"
    /\ ModelEq(schema, out.v, inst)

\* the place the spec gives each kind of check in the order of a field's messages
Rank(src) == CASE src = "native" -> 1 [] src = "method" -> 2 [] src = "validator" -> 3
               [] OTHER -> 0

\* C8: for a field holding a value that is neither Missing nor a disallowed
\* null, validate() emits the field's messages in the order: the messages of
\* the native rule, then the message of the validate_<field> method, then the
\* messages of the validator callables in their declared order.
C8_MessageOrder ==
    out.op = "validate" =>
        \A slot \in Slots(schema, inst, <<>>) : ~Absentee(slot) =>
            With(SelectSeq(out.events, LAMBDA e : e.path = slot.path /\ e.msg # ""),
                 LAMBDA messages :
                    \A i, j \in DOMAIN messages :
                        i < j => Rank(messages[i].src) <= Rank(messages[j].src))

\* the (path, message) pairs of the DataError the last operation raised
RaisedErrors ==
    CASE out.exc = "ValidationError" -> out.errors
      [] out.exc = "ConversionError" -> <<[path |-> out.path, msg |-> out.msg]>>
      [] OTHER -> <<>>

RECURSIVE LeafAt(_, _)

\* the messages the nested map holds at the location a path names: the leaf
\* list under the last segment, or the '_global' list of the map found there
LeafAt(es, path) ==
    IF Len(path) = 1
    THEN With(DictGet(es, path[1], ListV(<<>>)), LAMBDA found :
            IF found.t = "list" THEN found.items
            ELSE DictGet(found.items, "_global", ListV(<<>>)).items)
    ELSE With(DictGet(es, path[1], DictV(<<>>)), LAMBDA found :
            IF found.t = "dict" THEN LeafAt(found.items, Tail(path)) ELSE <<>>)

Occurrences(seq, x) == Cardinality({i \in DOMAIN seq : seq[i] = x})

\* C15: for every list of (path, message) pairs that validation or conversion
\* produces, DataError.errors returns a nested map that holds each message
\* exactly once at the location its path names - in the leaf list, or under
\* '_global' when the location also holds deeper errors - whichever of the
\* shorter and the deeper path was produced first.
C15_ErrorsMap ==
    RaisedErrors # <<>> =>
        With(DataErrorErrors(RaisedErrors), LAMBDA r :
            /\ r.exc = ""
            /\ \A k \in DOMAIN RaisedErrors :
                  Occurrences(LeafAt(r.es, IF RaisedErrors[k].path = <<>> THEN <<"_global">>
                                           ELSE RaisedErrors[k].path),
                              StrV(RaisedErrors[k].msg))
                  = Occurrences(RaisedErrors, RaisedErrors[k]))

\* the value given for Outer.u by the raw map of the last Outer(...)
GivenUnion ==
    IF out.op = "construct" /\ out.type = "Outer" /\ out.raw.t = "dict"
    THEN DictGet(out.raw.items, "u", Missing) ELSE Missing

\* the candidate models of Outer.u whose discriminator is the 'type' of the map
NamedBy(x) ==
    {T \in {"Item", "Alt"} : DictGet(x.items, "type", Missing) = StrV(decl[T].type)}

\* the last operation raised ConversionError at Outer.u with the message
FailsWith(msg) == out.exc = "ConversionError" /\ out.path = <<"u">> /\ out.msg = msg

\* C16: union-field conversion: a raw map whose 'type' names a candidate
\* yields an instance of exactly that candidate; an instance of a candidate
\* model is stored as it is; a non-map value, a map without 'type' and a map
\* with an unsupported 'type' each raise ConversionError, with three
\* mutually distinct messages.
C16_UnionConversion ==
    With(GivenUnion, LAMBDA x :
        CASE x \in {Missing, None} -> TRUE
          [] x.t = "model" /\ x.s \in {"Item", "Alt"} ->
                out.exc = "" /\ GetAttr(out.v, "u") = x
          [] x.t = "model" -> out.exc = "ConversionError"
          [] x.t # "dict" ->
                FailsWith("Expected a mapping with a type field, got type")
          [] DictGet(x.items, "type", Missing) = Missing ->
                FailsWith("Expected a mapping with a type field, got no type field")
          [] NamedBy(x) = {} -> FailsWith("Got a mapping with unsupported type")
          [] OTHER ->
                /\ out.exc = "" => /\ GetAttr(out.v, "u").t = "model"
                                   /\ NamedBy(x) = {GetAttr(out.v, "u").s}
                /\ out.exc # "" => /\ out.exc = "ConversionError"
                                   /\ Len(out.path) > 1 /\ out.path[1] = "u")

\* Outer was constructed from {'u': {'type': 'alt', 'x': 1}}, the second candidate
C16_Witness ==
    /\ GivenUnion # Missing /\ GivenUnion.t = "dict"
    /\ NamedBy(GivenUnion) = {"Alt"}
    /\ out.exc = "" /\ GetAttr(out.v, "u").s = "Alt"

\* the instance of a candidate model that Outer.u holds when serialize ran
\* on an Outer, Missing otherwise
HeldUnion ==
    IF out.op = "serialize" /\ out.type = "Outer" /\ GetAttr(inst, "u").t = "model"
    THEN GetAttr(inst, "u") ELSE Missing

\* the field Outer.u as compiled
UnionField == FieldNamed(schema["Outer"], "u")

\* constructing Outer again from the output selects the model of held for u
SelectsAgain(held) ==
    With(ModelInit(schema, "Outer", out.v), LAMBDA again :
        /\ again.exc = ""
        /\ GetAttr(again.v, "u").t = "model"
        /\ GetAttr(again.v, "u").s = held.s)

\* the output has, under key, a map whose 'type' is the discriminator of held
EmitsType(key, held) ==
    With(DictGet(out.v.items, key, Missing), LAMBDA data :
        /\ data # Missing /\ data.t = "dict"
        /\ DictGet(data.items, "type", Missing) = StrV(decl[held.s].type))

\* C17 (as amended): for a union field holding an instance of candidate model
\* B, whenever serialize under a role writes the field, the map written for it
\* has a 'type' entry equal to B's discriminator string; and when the field is
\* written under the key it is read from, constructing the owning model again
\* from that output selects the same concrete model B for the field.
C17_Discriminator ==
    With(HeldUnion, LAMBDA held :
        (held # Missing /\ UnionField.to_primitive_name \in SeqToSet(DictKeys(out.v.items))) =>
            /\ EmitsType(UnionField.to_primitive_name, held)
            /\ UnionField.to_primitive_name = UnionField.primitive_name =>
                    SelectsAgain(held))

\* C17 (as stated): for a union field holding an instance of candidate model
\* B, serialize under any role emits for that field a map whose 'type' entry
\* equals B's discriminator string, and constructing the owning model again
\* from that output selects the same concrete model B for the field.
C17_AsStated ==
    With(HeldUnion, LAMBDA held :
        held # Missing =>
            /\ EmitsType(UnionField.to_primitive_name, held)
            /\ SelectsAgain(held))

\* an Outer holding an Item in u was serialized under r1, which Item
\* restricts to cnt, and the output leads to an Item again
C17_Witness ==
    /\ HeldUnion # Missing /\ HeldUnion.s = "Item"
    /\ out.role = 1
    /\ DictGet(out.v.items, "u", Missing) = DictV(<<Entry("cnt", IntV(5)), Entry("type", StrV("item"))>>)
    /\ SelectsAgain(HeldUnion)

\* the errors errs, each under the path prefix
Under(prefix, errs) ==
    [i \in DOMAIN errs |-> [path |-> prefix \o errs[i].path, msg |-> errs[i].msg]]

\* the errors validate() has to report from inside the value of a list, dict,
\* model or union field: those of every element, in iteration order, under
\* the field key and the element's index or key
ErrorsInside(cfg, value) ==
    CASE value \in {None, Missing} -> <<>>
      [] cfg.field.kind = "list" ->
            Flatten([i \in DOMAIN value.items |->
                Under(<<cfg.input_name, IntToStr(i - 1)>>,
                      ErrorsOf(FieldValidationErrors(schema, cfg.field.sub[1],
                                                     value.items[i])))])
      [] cfg.field.kind = "dict" ->
            Flatten([i \in DOMAIN value.items |->
                Under(<<cfg.input_name, value.items[i].s>>,
                      ErrorsOf(FieldValidationErrors(schema, cfg.field.sub[1],
                                                     StrV(value.items[i].s))
                               \o FieldValidationErrors(schema, cfg.field.sub[2],
                                                        value.items[i].items[1])))])
      [] cfg.field.kind \in {"model", "union"} ->
            Under(<<cfg.input_name>>, ErrorsOf(ModelValidationErrors(schema, value)))
      [] OTHER -> <<>>

\* C23: every validation error found inside an element of a list or dict
\* field, or inside a nested or union model, is reported under the path
\* outer field key, element index or key as a string, inner path; the errors
\* validate() reports below a field key are those of all its elements and of
\* all their fields, in iteration order, not only those of the first failing
\* element.
C23_ElementPaths ==
    out.op = "validate" =>
        \A i \in DOMAIN ValidatedFields(schema[inst.s]) :
            LET cfg == ValidatedFields(schema[inst.s])[i]
            IN cfg.field.kind \in {"list", "dict", "model", "union"} =>
                  SelectSeq(out.errors,
                            LAMBDA e : Len(e.path) >= 2 /\ e.path[1] = cfg.input_name)
                      = ErrorsInside(cfg, GetAttr(inst, cfg.name))

\* validate() on an Outer whose list holds a valid element followed by two
\* invalid ones reported the errors of both, two of them for the second
C23_Witness ==
    /\ out.op = "validate" /\ inst.s = "Outer"
    /\ Len(GetAttr(inst, "items").items) = 3
    /\ {out.errors[i].path : i \in DOMAIN out.errors}
          = {<<"items", "1", NumKey>>, <<"items", "1", "cnt">>, <<"items", "2", NumKey>>}

\* the elements of the raw value of a list or dict field, in iteration order:
\* the path segment of each and what converting it on its own gives
RawElements(f, raw) ==
    With(TablesAfterGuard(schema, "input_fields"), LAMBDA tab :
        [i \in DOMAIN raw.items |->
            IF f.kind = "list"
            THEN [seg |-> IntToStr(i - 1), r |-> ConvertField(tab, f.sub[1], raw.items[i])]
            ELSE [seg |-> raw.items[i].s,
                  r |-> ConvertField(tab, f.sub[2], raw.items[i].items[1])]])

-----------------------------------------------------------------------------
(* Properties of role resolution, checked under SpecRoles                  *)

\* the roles that T or one of the classes it inherits from declares
AddressedBy(T) ==
    UNION {{decl[U].declare_roles[i].role : i \in DOMAIN decl[U].declare_roles} :
              U \in SeqToSet(Mro(T))}

\* the resolved set of a role once the declaration of T itself, if any, was
\* applied to the running set
AppliedOwn(T, code, running) ==
    IF code \in DOMAIN OwnRequestedRoles(T)
    THEN UpdateRequested(running, OwnRequestedRoles(T)[code],
                         FieldNamesOf(schema[T].fields.v), OwnFieldNames(T))
    ELSE IF RoleByCode(code).empty_by_default THEN running
    ELSE running \cup OwnFieldNames(T)

\* the field names that T is the first class of its hierarchy to declare
FirstIntroduced(T) ==
    OwnFieldNames(T)
        \ UNION {FieldNamesOf(schema[decl[T].bases[i]].fields.v) : i \in DOMAIN decl[T].bases}

\* C11: for a type that declares nothing for a role R that one of its bases
\* addressed, the resolved set of R is the running set merged from the bases
\* plus only the field names the type is the first to introduce (plus nothing
\* when R is empty-by-default); a field name the running set excludes stays
\* excluded, and serialize(R) on an instance of the type never emits it.
C11_NothingDeclared ==
    \A T \in DOMAIN decl : (schema[T].roles.set /\ decl[T].bases # <<>>) =>
        \A code \in DOMAIN schema[T].roles.v \ DOMAIN OwnRequestedRoles(T) :
            With(MergedFromBases(schema, T, code), LAMBDA running :
                /\ schema[T].roles.v[code] =
                      running \cup (IF RoleByCode(code).empty_by_default THEN {}
                                    ELSE FirstIntroduced(T))
                /\ \A name \in FieldNamesOf(schema[T].fields.v) \ FirstIntroduced(T) :
                      name \notin running =>
                          /\ name \notin schema[T].roles.v[code]
                          /\ (out.op = "serialize" /\ out.type = T /\ out.role = code) =>
                                name \notin SeqToSet(DictKeys(out.v.items)))

\* C12: after compilation, every resolved role field set of a type holds only
\* names of fields, input or computed, that the type declares or inherits,
\* whatever descriptors its declare_roles passed to whitelist and blacklist.
C12_RoleSetsWithinFields ==
    \A T \in DOMAIN decl : schema[T].roles.set =>
        \A code \in DOMAIN schema[T].roles.v :
            schema[T].roles.v[code] \subseteq FieldNamesOf(schema[T].fields.v)

\* C5: serialize(role=R), for a role R that neither the type of the instance
\* nor any of its bases declares, equals serialize(default role) when R is
\* not empty-by-default and equals the empty map when it is, whatever the
\* code of R is relative to the codes of the declared roles.
C5_RoleFallback ==
    (out.op = "serialize" /\ out.role \notin AddressedBy(out.type)) =>
        out.v = IF RoleByCode(out.role).empty_by_default THEN DictV(<<>>)
                ELSE ModelToPrimitive(schema, inst, DEFAULT_ROLE)

\* C9 (as amended): for a type that declares role R itself, the resolved set
\* is: whitelist(F): the running set of the bases united with F, or exactly F
\* with override_parents; blacklist(F): the running set of the bases united
\* with the field names the type declares itself, minus F, or all field
\* names of the type minus F with override_parents.
C9_OwnDeclaration ==
    \A T \in DOMAIN decl : schema[T].roles.set =>
        \A code \in DOMAIN OwnRequestedRoles(T) :
            LET req == OwnRequestedRoles(T)[code]
                running == MergedFromBases(schema, T, code)
            IN schema[T].roles.v[code] =
                  IF req.is_whitelist
                  THEN (IF req.override_parents THEN req.fields
                        ELSE running \cup req.fields)
                  ELSE (IF req.override_parents
                        THEN FieldNamesOf(schema[T].fields.v) \ req.fields
                        ELSE (running \cup OwnFieldNames(T)) \ req.fields)

\* C9 (as stated): the same, but blacklist(F) without override_parents gives
\* the running set of the bases minus F.
C9_AsStated ==
    \A T \in DOMAIN decl : schema[T].roles.set =>
        \A code \in DOMAIN OwnRequestedRoles(T) :
            LET req == OwnRequestedRoles(T)[code]
                running == MergedFromBases(schema, T, code)
            IN schema[T].roles.v[code] =
                  IF req.is_whitelist
                  THEN (IF req.override_parents THEN req.fields
                        ELSE running \cup req.fields)
                  ELSE (IF req.override_parents
                        THEN FieldNamesOf(schema[T].fields.v) \ req.fields
                        ELSE running \ req.fields)

\* a compiled subclass that blacklists, without override, a field its base
\* whitelisted for the same role
C9_Witness ==
    /\ schema["Child"].roles.set
    /\ 1 \in DOMAIN OwnRequestedRoles("Child")
    /\ ~OwnRequestedRoles("Child")[1].is_whitelist
    /\ ~OwnRequestedRoles("Child")[1].override_parents
    /\ "a" \in MergedFromBases(schema, "Child", 1)
    /\ "a" \notin schema["Child"].roles.v[1]
    /\ "c" \in schema["Child"].roles.v[1]

\* C10: for a type with model bases, the running set of role R, to which the
\* type's own declaration is then applied, is the union over the bases of:
\* the base's resolved set for R when the base or one of its ancestors
\* declared R, else all field names of the base when R is not
\* empty-by-default, else nothing.
C10_RunningSet ==
    \A T \in DOMAIN decl : (schema[T].roles.set /\ decl[T].bases # <<>>) =>
        \A code \in DOMAIN schema[T].roles.v :
            LET contribution(b) ==
                    IF code \in AddressedBy(b) THEN schema[b].roles.v[code]
                    ELSE IF RoleByCode(code).empty_by_default THEN {}
                    ELSE FieldNamesOf(schema[b].fields.v)
                running == UNION {contribution(decl[T].bases[i]) : i \in DOMAIN decl[T].bases}
            IN schema[T].roles.v[code] = AppliedOwn(T, code, running)

\* a compiled subclass and an empty-by-default role that one of its bases
\* declared and the other did not
C10_Witness ==
    /\ schema["Child"].roles.set
    /\ \E code \in DOMAIN schema["Child"].roles.v :
          /\ RoleByCode(code).empty_by_default
          /\ code \in AddressedBy("Base")
          /\ code \notin AddressedBy("Mixin")
          /\ code \notin DOMAIN OwnRequestedRoles("Child")
          /\ schema["Child"].roles.v[code] = {"a"}

\* the names of the fields of T whose output key is disabled
Disabled(T) ==
    {schema[T].fields.v[i].name : i \in {j \in DOMAIN schema[T].fields.v :
                                            schema[T].fields.v[j].to_primitive_name = NoName}}

\* C18: for every model type and every role R, declared or not and whatever
\* its code, fields_for_role(R) and field_names_for_role(R) list only fields
\* whose output key is enabled, and the keys of serialize(R) are among
\* field_names_for_role(R); a field whose output key is disabled is never
\* serialized and never listed.
C18_OnlyEnabledListed ==
    /\ out.op = "fields_for_role" =>
          /\ \A i \in DOMAIN out.v.items : out.v.items[i].s \notin Disabled(out.type)
          /\ \A i \in DOMAIN out.names : out.names[i] # NoName
    /\ out.op = "serialize" =>
          /\ SeqToSet(DictKeys(out.v.items))
                \subseteq SeqToSet(FieldNamesForRole(schema[out.type], RoleByCode(out.role)))
          /\ NoName \notin SeqToSet(DictKeys(out.v.items))

\* the schemas after the first use of T in a program that has used no type yet
CompiledAlone(T) == InitializeModel([U \in DOMAIN decl |-> Uncompiled], T)

\* every table of the type is set
FullyCompiled(T) ==
    /\ schema[T].fields.set /\ schema[T].input_fields.set
    /\ schema[T].validated_fields.set /\ schema[T].role_fields.set /\ schema[T].roles.set

SchemaKept == \A T \in DOMAIN decl : schema[T].fields.set => schema'[T] = schema[T]

\* C26: the compiled tables of a model type are the same whether its bases
\* were compiled by their own earlier first use or on demand during the
\* subtype's first use, and a base compiled on demand ends in the same state
\* as when it is used directly: every compiled type holds the tables its
\* first use gives in a program that used nothing before.  Once a type is
\* compiled, no later use changes its tables.
C26_CompiledOnce ==
    /\ [](\A T \in DOMAIN decl :
            schema[T].fields.set => /\ FullyCompiled(T)
                                    /\ schema[T] = CompiledAlone(T)[T])
    /\ [][SchemaKept]_vars

\* Base was compiled by its own first use, Child and Mixin were not used yet:
\* the first use of Child finds one base compiled and compiles the other
C26_Witness ==
    /\ out.op = "construct" /\ out.type = "Base"
    /\ FullyCompiled("Base")
    /\ ~schema["Child"].fields.set /\ ~schema["Mixin"].fields.set

-----------------------------------------------------------------------------
(* Properties of Model.copy, checked under SpecCopy                         *)

\* every mutation since the copy went through the given one of x and y
OnlyVia(via) == \A i \in DOMAIN out.via : out.via[i] = via

\* the fields of x that hold an object
ObjectFields == {i \in DOMAIN heap[inst.n].items : heap[inst.n].items[i].items[1].t = "ref"}

\* C7: after y = x.copy(deep=True), x and y share no list, dict, any-typed
\* container or nested model at any depth, so that mutations made through y
\* leave the value of x as it was at the copy, and mutations made through x
\* leave the value of y as it was; after y = x.copy(deep=False), every field
\* of x that holds an object holds the very same object in y.
C7_CopyIndependence ==
    out.op = "copy" =>
        /\ out.deep =>
              /\ Reach(heap, inst) \cap Reach(heap, out.y) = {}
              /\ OnlyVia("y") => Deref(heap, inst) = out.before
              /\ OnlyVia("x") => Deref(heap, out.y) = out.before
        /\ ~out.deep =>
              \A i \in ObjectFields :
                  GetAttr(heap[out.y.n], heap[inst.n].items[i].s) = heap[inst.n].items[i].items[1]

\* a deep copy whose nested model inside the list field was changed through
\* y, while x still has the value it had when it was copied
C7_Witness ==
    /\ out.op = "copy" /\ out.deep
    /\ out.via # <<>> /\ OnlyVia("y")
    /\ Len(GetAttr(Deref(heap, out.y), "leaves").items)
          = Len(GetAttr(out.before, "leaves").items)
    /\ GetAttr(Deref(heap, out.y), "leaves") # GetAttr(out.before, "leaves")
    /\ Deref(heap, inst) = out.before

-----------------------------------------------------------------------------
(* Properties of concurrent first use, checked under SpecFirstUse           *)

\* C13: whenever a thread reads the schema of a type that several threads
\* use for the first time, it finds it either not yet compiled or fully
\* compiled: never with some tables set and others not, and never with the
\* output table of a declared role still holding the default field list.
C13_AllOrNothing ==
    out.op = "read" => out.seen \in {Uncompiled, Compiled(FirstUseType)}

-----------------------------------------------------------------------------
(* Properties of concurrent Role creation, checked under SpecRegistry       *)

\* the codes of the registry are 0..n-1 in registry order, the default role
\* first, and every Role a thread holds is the registry's entry at its code
DenseCodes ==
    /\ roles[1] = DEFAULT_ROLE
    /\ \A i \in DOMAIN roles : roles[i].code = i - 1
    /\ \A t \in Threads : \A j \in DOMAIN pc[t].made :
          /\ pc[t].made[j].code + 1 \in DOMAIN roles
          /\ roles[pc[t].made[j].code + 1] = pc[t].made[j]

\* a step keeps every Role created so far, with its code
CodesKept ==
    /\ \A i \in DOMAIN roles : i \in DOMAIN roles' /\ roles'[i] = roles[i]
    /\ \A t \in Threads : \A j \in DOMAIN pc[t].made :
          j \in DOMAIN pc'[t].made /\ pc'[t].made[j] = pc[t].made[j]

\* C14: for any interleaving of concurrent Role creations every role gets a
\* distinct code equal to its position in the registry, the codes are the
\* dense range 0..n-1 with the default role at 0, and no code ever changes.
C14_DenseStableCodes == []DenseCodes /\ [][CodesKept]_vars

\* two threads have interleaved their creations: each has created its roles
\* and the first thread's roles are not adjacent in the registry
C14_Witness ==
    /\ \A t \in Threads : Len(pc[t].made) = MaxRoles
    /\ pc[1].made[2].code - pc[1].made[1].code > 1

-----------------------------------------------------------------------------
(* Properties of hidden fields, checked under SpecHide                      *)

\* the entries of the output table serialize selected, none when it returned
\* {} at once
SelectedTable ==
    With(SelectRoleFields(schema[out.type].role_fields.v, RoleByCode(out.role)),
         LAMBDA index : IF index = 0 THEN <<>> ELSE RoleFields(schema[out.type], index))

\* the primitive form of the value stored for an entry of the output table
Primitive(cfg) ==
    With(GetAttr(inst, cfg.name), LAMBDA value :
        IF cfg.to_primitive /\ value # Missing
        THEN FieldToPrimitive(schema, cfg.field, value, RoleByCode(out.role))
        ELSE value)

Written(cfg) == cfg.to_primitive_name \in SeqToSet(DictKeys(out.v.items))

\* a null is not hidden by hide-if-empty alone, nor an empty value by
\* hide-if-null alone
NotHiddenByTheOther(cfg, value) ==
    /\ (value = None /\ ~cfg.hide_none) => Written(cfg)
    /\ (value = EmptyValue(cfg.field) /\ ~cfg.hide_empty) => Written(cfg)

\* C19 (as amended): for a non-computed field in the selected role's output
\* table, serialize writes the field's output key if and only if the stored
\* value is not Missing, and not (hide-if-null is set and the value's
\* primitive form is null), and not (hide-if-empty is set and the value's
\* primitive form equals the field type's empty sentinel); a null is never
\* hidden by hide-if-empty alone, nor an empty value by hide-if-null alone.
C19_HiddenValues ==
    out.op = "serialize" =>
        \A i \in DOMAIN SelectedTable :
            With(SelectedTable[i], LAMBDA cfg :
                cfg.serializable = NoName =>
                    /\ Written(cfg) <=>
                          /\ GetAttr(inst, cfg.name) # Missing
                          /\ ~(cfg.hide_none /\ Primitive(cfg) = None)
                          /\ ~(cfg.hide_empty /\ Primitive(cfg) = EmptyValue(cfg.field))
                    /\ NotHiddenByTheOther(cfg, Primitive(cfg)))

\* C19 (as stated): for a non-computed field in the selected role's output
\* table, serialize writes the field's output key if and only if the stored
\* value is not Missing, and not (hide-if-null is set and the value is null),
\* and not (hide-if-empty is set and the value equals the field type's empty
\* sentinel); a null is never hidden by hide-if-empty alone, nor an empty
\* value by hide-if-null alone.
C19_AsStated ==
    out.op = "serialize" =>
        \A i \in DOMAIN SelectedTable :
            With(SelectedTable[i], LAMBDA cfg :
                cfg.serializable = NoName =>
                    /\ Written(cfg) <=>
                          /\ GetAttr(inst, cfg.name) # Missing
                          /\ ~(cfg.hide_none /\ GetAttr(inst, cfg.name) = None)
                          /\ ~(cfg.hide_empty /\ GetAttr(inst, cfg.name) = EmptyValue(cfg.field))
                    /\ NotHiddenByTheOther(cfg, GetAttr(inst, cfg.name)))

\* Hide({'none': 0, 'zero': None, 'both': 1}) was serialized: the empty value
\* of none and the null of zero are written, inner (null, hidden when empty)
\* is written, req (Missing) is not
C19_Witness ==
    /\ out.op = "serialize" /\ out.type = "Hide" /\ out.role = 0
    /\ GetAttr(inst, "none") = IntV(0) /\ GetAttr(inst, "zero") = None
    /\ GetAttr(inst, "req") = Missing
    /\ out.v = DictV(<<Entry("none", IntV(0)), Entry("zero", None), Entry("both", IntV(1)),
                       Entry("inner", None)>>)

-----------------------------------------------------------------------------
(* Properties of Model.__eq__, checked under SpecEq                         *)

\* the names of the input-table fields of the instance
InputNames(self) == SeqToSet(schema[self.s].input_fields.v)

\* C20: a == b holds if and only if a and b have the identical concrete model
\* type and every input-table field of a compares equal to the same field of
\* b; computed fields never influence the result, and an instance of a
\* subclass never equals an instance of its base type, even when all shared
\* fields are equal.
C20_Equality ==
    out.op = "eq" =>
        /\ out.eq <=>
              /\ out.v.t = "model" /\ out.v.s = inst.s
              /\ \A name \in InputNames(inst) :
                    ValueEq(schema, GetAttr(inst, name), GetAttr(out.v, name))
        /\ (out.v.t = "model" /\ out.v.s # inst.s) => ~out.eq

\* a Dried was compared with a Leaf whose fields are all equal to its own -
\* the tags in another order - and is not equal to it
C20_Witness ==
    /\ out.op = "eq" /\ ~out.eq
    /\ inst.s = "Dried" /\ out.v.t = "model" /\ out.v.s = "Leaf"
    /\ GetAttr(inst, "tags") # GetAttr(out.v, "tags")
    /\ Len(GetAttr(inst, "tags").items) = 2
    /\ \A name \in InputNames(inst) :
          ValueEq(schema, GetAttr(inst, name), GetAttr(out.v, name))

-----------------------------------------------------------------------------
(* Access by key: Model.__getitem__ and Model.get                          *)

\* attrs.get('__slots__', ()): the slots the class body lists itself
ExtraSlots(T) == IF "slots" \in DOMAIN decl[T] THEN decl[T].slots ELSE {}

\* the plain @property definitions of the class body, name |-> function
PlainProperties(T) ==
    IF "properties" \in DOMAIN decl[T] THEN decl[T].properties ELSE <<>>

\* ModelMeta._find_properties: serializable fields are properties too
FindProperties(T) == FieldNamesOf(decl[T].serializable) \cup DOMAIN PlainProperties(T)

\* ModelMeta.__new__: all_slots
AllSlots(T) ==
    (UNION {AbstractSlots(decl[T].bases[i]) : i \in DOMAIN decl[T].bases}
        \cup FieldNamesOf(decl[T].fields) \cup ExtraSlots(T))
    \ FieldNamesOf(decl[T].serializable)

\* __gettable__ without the names the bases contribute
GettableOwn(T) == AllSlots(T) \cup FindProperties(T)

RECURSIVE Gettable(_)
\* ModelMeta.__new__: __gettable__
Gettable(T) ==
    AllSlots(T)
        \cup UNION {Gettable(decl[T].bases[i]) : i \in DOMAIN decl[T].bases}
        \cup FindProperties(T)

\* what getattr raises for a slot that was never assigned
AttributeError == Val("AttributeError", 0, "", <<>>)

\* the function behind the property `key`, found along the MRO
PropertyFunction(T, key) ==
    With(Mro(T), LAMBDA mro :
        LET C == mro[CHOOSE i \in DOMAIN mro :
                        /\ key \in FindProperties(mro[i])
                        /\ \A j \in 1..(i - 1) : key \notin FindProperties(mro[j])]
        IN IF key \in DOMAIN PlainProperties(C) THEN PlainProperties(C)[key]
           ELSE LET fs == decl[C].serializable
                IN fs[CHOOSE i \in DOMAIN fs : fs[i].name = key].serializable)

\* getattr(self, key) for a name of __gettable__
GetAttribute(self, key) ==
    With(SeqToSet(Mro(self.s)), LAMBDA mro :
        IF \E C \in mro : key \in FindProperties(C)
        THEN SerializableValue(PropertyFunction(self.s, key), self)
        ELSE IF \E C \in mro : key \in ExtraSlots(C)
        THEN DictGet(self.items, key, AttributeError)
        ELSE GetAttr(self, key))

\* instance[key]
GetItem(key) ==
    /\ inst # None
    /\ LET value == GetAttribute(inst, key)
           failed == key \notin Gettable(inst.s) \/ value = AttributeError
       IN out' = [NoOut EXCEPT !.op = "getitem", !.type = inst.s, !.names = <<key>>,
                               !.exc = IF failed THEN "KeyError" ELSE "",
                               !.v = IF failed THEN None ELSE value]
    /\ UNCHANGED <<pc, roles, decl, schema, heap, inst>>

\* instance.get(key, default)
Get(key, default) ==
    /\ inst # None
    /\ LET value == GetAttribute(inst, key)
       IN out' = [NoOut EXCEPT !.op = "get", !.type = inst.s, !.names = <<key>>,
                               !.raw = default,
                               !.v = IF \/ key \notin Gettable(inst.s)
                                         \/ value \in {AttributeError, Missing}
                                      THEN default ELSE value]
    /\ UNCHANGED <<pc, roles, decl, schema, heap, inst>>

\* instance.extra_slot = value
SetSlot(key, value) ==
    /\ inst # None
    /\ inst' = [inst EXCEPT !.items = DictSet(@, key, value)]
    /\ out' = [NoOut EXCEPT !.op = "setattr", !.type = inst.s, !.names = <<key>>]
    /\ UNCHANGED <<pc, roles, decl, schema, heap>>

\* class AccessBase(Model):  __slots__ = ['extra_slot']
\*                           basic_field: int
\*                           @serializable basic_serializable: returns self.basic_field
\*                           @property basic_property: returns 7
\* class Access(AccessBase): default_field: int = 1
\*                           @serializable default_serializable: returns
\*                                                       self.default_field
\*                           @property default_property: returns None
AccessProgram ==
    [T \in {"AccessBase", "Access"} |->
        IF T = "AccessBase"
        THEN Class(<<>>, <<Declared("basic_field", BlankField("int"))>>,
                   <<SerializableField("basic_serializable", "basic_field", FALSE, Unset)>>,
                   <<>>, <<>>, "")
             @@ [slots |-> {"extra_slot"}, properties |-> [basic_property |-> "seven"]]
        ELSE Class(<<"AccessBase">>, <<IntDefault("default_field", 1)>>,
                   <<SerializableField("default_serializable", "default_field", FALSE,
                                       Unset)>>,
                   <<>>, <<>>, "")
             @@ [properties |-> [default_property |-> "nothing"]]]

AccessInit ==
    /\ roles = DataRoles
    /\ decl = AccessProgram
    /\ schema = [T \in {"AccessBase", "Access"} |-> Uncompiled]
    /\ heap = <<>>
    /\ inst = None
    /\ out = NoOut
    /\ pc = <<>>

AccessRaws ==
    {HideRaw(<<Entry("basic_field", b), Entry("default_field", d)>>) :
        b \in {Missing, IntV(2)}, d \in {Missing, None, IntV(3)}}

\* field, computed-field, property and slot names, a method name, a name the
\* class does not have
AccessKeys ==
    {"basic_field", "default_field", "basic_serializable", "default_serializable",
     "basic_property", "default_property", "extra_slot", "get", "doesnt_exist"}

AccessNext ==
    \/ \E T \in {"AccessBase", "Access"}, raw \in AccessRaws : Construct(T, raw)
    \/ \E key \in AccessKeys : GetItem(key)
    \/ \E key \in AccessKeys, default \in {None, StrV("unknown")} : Get(key, default)
    \/ SetSlot("extra_slot", IntV(5))

SpecAccess == AccessInit /\ [][AccessNext]_vars

-----------------------------------------------------------------------------
(* Properties of SpecAccess                                                 *)

\* the names a type declares, itself or through a base, as a field, a computed
\* field or a property
DeclaredNames(T) ==
    UNION {FieldNamesOf(decl[C].fields) \cup FieldNamesOf(decl[C].serializable)
              \cup DOMAIN PlainProperties(C) : C \in SeqToSet(Mro(T))}

\* the key is a slot of the class body that the instance has assigned
AssignedSlot(key) ==
    /\ \E C \in SeqToSet(Mro(inst.s)) : key \in ExtraSlots(C)
    /\ \E i \in DOMAIN inst.items : inst.items[i].s = key

\* the key names an input field whose value is Missing
AbsentValue(key) ==
    /\ \E C \in SeqToSet(Mro(inst.s)) : key \in FieldNamesOf(decl[C].fields)
    /\ GetAttr(inst, key) = Missing

\* C21: access by key is permitted for declared field, computed-field and
\* property names and for an assigned slot of the class body.  For any other
\* key, method names included, m[key] raises KeyError while get(key, default)
\* does not fail and returns the default.  For a permitted key whose value
\* is absent neither fails: get returns the default and m[key] returns Missing.
C21_KeyAccess ==
    out.op \in {"get", "getitem"} =>
        LET key == out.names[1]
            permitted == key \in DeclaredNames(out.type) \/ AssignedSlot(key)
        IN /\ out.op = "getitem" =>
                /\ out.exc = (IF permitted THEN "" ELSE "KeyError")
                /\ AbsentValue(key) => out.v = Missing
           /\ out.op = "get" =>
                /\ out.exc = ""
                /\ ~permitted => out.v = out.raw
                /\ AbsentValue(key) => out.v = out.raw

\* C21 as the specification words it: a key that is not a declared field,
\* computed-field or property name reports a lookup failure from get and from
\* the index alike
C21_AsStated ==
    out.op \in {"get", "getitem"} /\ out.names[1] \notin DeclaredNames(out.type)
        => out.exc = "KeyError"

\* get with a method name as the key returned the caller's default, on an
\* instance whose required field is absent
C21_Witness ==
    /\ out.op = "get" /\ out.names = <<"get">>
    /\ out.exc = "" /\ out.raw = StrV("unknown") /\ out.v = out.raw
    /\ inst.s = "Access" /\ GetAttr(inst, "basic_field") = Missing

-----------------------------------------------------------------------------
(* A program with computed fields                                          *)

\* class Computed(Model):  a: int
\*                         b: Optional[int] = None
\*                         @serializable p: returns self.a
\*                         @serializable(hide_none=True) q: returns self.b
\*                         @serializable(to_primitive_name='out') m: returns 7
\*     def declare_roles(cls): yield r1.blacklist(cls.b, cls.m)
\*                             yield none.whitelist(cls.q)
ComputedProgram ==
    [T \in {"Computed"} |->
        Class(<<>>,
              <<Declared("a", BlankField("int")),
                Declared("b", InitDefault(Optional(BlankField("int")), None))>>,
              <<SerializableField("p", "a", FALSE, Unset),
                SerializableField("q", "b", TRUE, Unset),
                SerializableField("m", "seven", FALSE, "out")>>,
              <<>>,
              <<Blacklist(1, {"b", "m"}, FALSE), Whitelist(2, {"q"}, FALSE)>>, "")]

ComputedInit ==
    /\ roles = DataRoles
    /\ decl = ComputedProgram
    /\ schema = [T \in {"Computed"} |-> Uncompiled]
    /\ heap = <<>>
    /\ inst = None
    /\ out = NoOut
    /\ pc = <<>>

\* raw maps that may carry the names and the output keys of the computed fields
ComputedRaws ==
    {HideRaw(<<Entry("a", a), Entry("p", p), Entry("b", b), Entry("q", q),
               Entry("out", o), Entry("m", m)>>) :
        a \in {Missing, IntV(2), IntV(4)}, b \in {Missing, None, IntV(3)},
        p \in {Missing, IntV(9)}, q \in {Missing, IntV(9)},
        o \in {Missing, IntV(9)}, m \in {Missing, StrV("x")}}

ComputedNext ==
    \/ \E raw \in ComputedRaws : Construct("Computed", raw)
    \/ \E code \in 0..(Len(roles) - 1) : Serialize(code)

SpecComputed == ComputedInit /\ [][ComputedNext]_vars

-----------------------------------------------------------------------------
(* Properties of computed fields, checked under SpecComputed                *)

\* the computed fields of a compiled type
ComputedFields(T) ==
    SelectSeq(schema[T].fields.v, LAMBDA f : f.serializable # NoName)

\* the raw map without the keys that name a computed field or its output key
WithoutComputed(T, raw) ==
    LET cs == ComputedFields(T)
        keys == UNION {{cs[i].name, cs[i].to_primitive_name} : i \in DOMAIN cs}
    IN DictV(SelectSeq(raw.items, LAMBDA e : e.s \notin keys))

\* the resolved field set of a role: the one compiled for a role the type
\* addresses, else every field, or none for an empty-by-default role
ResolvedSet(T, code) ==
    IF code \in DOMAIN schema[T].roles.v THEN schema[T].roles.v[code]
    ELSE IF RoleByCode(code).empty_by_default THEN {}
    ELSE FieldNamesOf(schema[T].fields.v)

\* C22: a computed field is never assigned from raw input: the instance holds
\* no value under its name and is the one built from the raw map without the
\* keys equal to a computed field's name or output key; the input table and
\* the validation table have no entry for it; serialize(role) emits it, under
\* its output key and with its computed value, exactly when the role's
\* resolved field set contains it and hide-if-null does not apply to the
\* computed value.
C22_ComputedFields ==
    /\ \A T \in DOMAIN decl : schema[T].fields.set =>
          \A i \in DOMAIN ComputedFields(T) :
              /\ ComputedFields(T)[i].name \notin SeqToSet(schema[T].input_fields.v)
              /\ ComputedFields(T)[i].name \notin SeqToSet(schema[T].validated_fields.v)
    /\ (out.op = "construct" /\ out.exc = "") =>
          /\ \A i \in DOMAIN ComputedFields(out.type) :
                ComputedFields(out.type)[i].name \notin SeqToSet(DictKeys(out.v.items))
          /\ out.v = ModelInit(schema, out.type, WithoutComputed(out.type, out.raw)).v
    /\ out.op = "serialize" =>
          \A i \in DOMAIN ComputedFields(out.type) :
              LET f == ComputedFields(out.type)[i]
                  value == SerializableValue(f.serializable, inst)
                  emitted == f.to_primitive_name \in SeqToSet(DictKeys(out.v.items))
              IN /\ emitted <=> /\ f.name \in ResolvedSet(out.type, out.role)
                                /\ ~(f.hide_none /\ value = None)
                 /\ emitted => DictGet(out.v.items, f.to_primitive_name, Missing) = value

\* an instance built from a raw map that carries the names of all computed
\* fields, serialized for r1: p is emitted with the value of a, q is hidden
\* because it computes null, m is left out by the role
C22_Witness ==
    /\ out.op = "serialize" /\ out.role = 1
    /\ inst = ModelInit(schema, "Computed",
                        DictV(<<Entry("a", IntV(2)), Entry("p", IntV(9)),
                                Entry("q", IntV(9)), Entry("out", IntV(9)),
                                Entry("m", StrV("x"))>>)).v
    /\ out.v = DictV(<<Entry("a", IntV(2)), Entry("p", IntV(2))>>)

-----------------------------------------------------------------------------
(* A program with bool fields                                              *)

\* class BoolModel(Model):  req: bool
\*                          opt: Optional[bool] = False
BoolProgram ==
    [T \in {"BoolModel"} |->
        Class(<<>>,
              <<Declared("req", BlankField("bool")),
                Declared("opt", InitDefault(Optional(BlankField("bool")), BoolV(FALSE)))>>,
              <<>>, <<>>, <<>>, "")]

BoolInit ==
    /\ roles = DataRoles
    /\ decl = BoolProgram
    /\ schema = [T \in {"BoolModel"} |-> Uncompiled]
    /\ heap = <<>>
    /\ inst = None
    /\ out = NoOut
    /\ pc = <<>>

\* the strings true, false, yes and no in lower case, capitalised, in upper
\* case and in mixed case, and another string
BoolStrings ==
    {"true", "True", "TRUE", "tRue", "false", "False", "FALSE", "yes", "Yes", "YES",
     "no", "No", "NO", "nO", "bad"}

BoolRawValues ==
    {BoolV(TRUE), BoolV(FALSE), IntV(0), IntV(1), FloatV(2), ListV(<<>>),
     ListV(<<StrV("true")>>), DictV(<<>>)}
    \cup {StrV(s) : s \in BoolStrings}

BoolRaws ==
    {HideRaw(<<Entry("req", r), Entry("opt", o)>>) :
        r \in BoolRawValues \cup {Missing, None},
        o \in {Missing, None, BoolV(TRUE), StrV("No"), StrV("NO"), ListV(<<>>)}}

BoolNext ==
    \/ \E raw \in BoolRaws : Construct("BoolModel", raw)
    \/ \E code \in 0..(Len(roles) - 1) : Serialize(code)

SpecBool == BoolInit /\ [][BoolNext]_vars

-----------------------------------------------------------------------------
(* Properties of bool conversion, checked under SpecBool                    *)

\* str.lower() of the strings the program is given
LowerCase(s) ==
    CASE s \in {"true", "True", "TRUE", "tRue"} -> "true"
      [] s \in {"false", "False", "FALSE"} -> "false"
      [] s \in {"yes", "Yes", "YES"} -> "yes"
      [] s \in {"no", "No", "NO", "nO"} -> "no"
      [] OTHER -> s

\* C25: bool conversion accepts exactly the booleans and any case variant of
\* the strings true/false/yes/no, mapping true/yes to true and false/no to
\* false; every other raw value that is neither null nor Missing is rejected
\* with a ConversionError whose message is 'Value must be a boolean or a
\* true/false/yes/no string value'.
C25_BoolConversion ==
    (out.op = "construct" /\ out.type = "BoolModel") =>
        LET value == DictGet(out.raw.items, "req", Missing)
            rejected == out.exc = "ConversionError" /\ out.path = <<"req">>
            accepted(b) == ~rejected /\ (out.exc = "" => GetAttr(out.v, "req") = b)
        IN CASE value \in {Missing, None} -> ~rejected
             [] value.t = "bool" -> accepted(value)
             [] value.t = "str" /\ LowerCase(value.s) \in {"true", "yes"} ->
                    accepted(BoolV(TRUE))
             [] value.t = "str" /\ LowerCase(value.s) \in {"false", "no"} ->
                    accepted(BoolV(FALSE))
             [] OTHER ->
                    /\ rejected
                    /\ out.msg = "Value must be a boolean or a true/false/yes/no string value"

\* the same for the strings BoolField.convert lists and for the raw values
\* that can be hashed
C25_ListedStrings ==
    (out.op = "construct" /\ out.type = "BoolModel") =>
        LET value == DictGet(out.raw.items, "req", Missing)
        IN (value.t \notin {"list", "dict"}
              /\ (value.t = "str" => value.s \in {"true", "True", "yes", "Yes", "false",
                                                   "False", "no", "No", "bad"}))
              => C25_BoolConversion

-----------------------------------------------------------------------------
(* A program whose subclass redefines a field and adds validate methods    *)

\* class MyBase(Model):         a: int
\*                              b: int
\*                              c: int = IntField(hide_none=True, default=5)
\* class MyChild(MyBase):       b: str = StrField(primitive_name='bb')
\*                              d: int = 1
\*     def validate_a(self, value, _): odd_only
\*     def validate_c(self, value, _): not_1_or_3
\* class AnotherChild(MyBase):  pass
InheritProgram ==
    [T \in {"MyBase", "MyChild", "AnotherChild"} |->
        CASE T = "MyBase" ->
                Class(<<>>,
                      <<Declared("a", BlankField("int")), Declared("b", BlankField("int")),
                        Declared("c", [InitDefault(BlankField("int"), IntV(5))
                                          EXCEPT !.hide_none = TRUE])>>,
                      <<>>, <<>>, <<>>, "")
          [] T = "MyChild" ->
                Class(<<"MyBase">>,
                      <<Declared("b", FieldNames(BlankField("str"), "bb", Unset)),
                        IntDefault("d", 1)>>,
                      <<>>, [n \in {"a", "c"} |-> IF n = "a" THEN "odd_only"
                                                  ELSE "not_1_or_3"],
                      <<>>, "")
          [] T = "AnotherChild" -> Class(<<"MyBase">>, <<>>, <<>>, <<>>, <<>>, "")]

InheritInit ==
    /\ roles = DefaultRegistry
    /\ decl = InheritProgram
    /\ schema = [T \in {"MyBase", "MyChild", "AnotherChild"} |-> Uncompiled]
    /\ heap = <<>>
    /\ inst = None
    /\ out = NoOut
    /\ pc = <<>>

InheritRaws ==
    {HideRaw(<<Entry("a", a), Entry("b", b), Entry("bb", bb), Entry("c", c)>>) :
        a \in {Missing, IntV(1), IntV(2)}, b \in {IntV(3), StrV("x")},
        bb \in {Missing, StrV("y")}, c \in {Missing, IntV(1)}}

InheritNext ==
    \/ \E T \in DOMAIN decl, raw \in InheritRaws : Construct(T, raw)
    \/ ValidateInstance
    \/ \E T \in DOMAIN decl : QueryFieldsForRole(T, 0)

SpecInherit == InheritInit /\ [][InheritNext]_vars

-----------------------------------------------------------------------------
(* Properties of inherited fields, checked under SpecInherit                *)

\* the types that do not declare what MyChild declares
NotTheSubclass == {"MyBase", "AnotherChild"}

\* C27: the validate_<field> methods and the field redefinition of a subclass
\* affect that subclass alone, whichever type is compiled first: the compiled
\* fields of the base and of a sibling subclass carry no validator method and
\* keep the base's declaration of the redefined field; constructing them reads
\* the redefined field under the base's input key and converts it as the base
\* declares; validating them invokes no validate_<field> method and reports
\* under the base's key.
C27_SubclassOnly ==
    /\ \A T \in NotTheSubclass : schema[T].fields.set =>
          \A i \in DOMAIN schema[T].fields.v :
              LET f == schema[T].fields.v[i]
              IN /\ f.validator_method = NoName
                 /\ f.name = "b" => f.kind = "int" /\ f.primitive_name = "b"
                 /\ f.name # "d"
    /\ (out.op = "construct" /\ out.type \in NotTheSubclass /\ out.exc = "") =>
          GetAttr(out.v, "b") = DictGet(out.raw.items, "b", Missing)
    /\ (out.op = "validate" /\ out.type \in NotTheSubclass) =>
          \A i \in DOMAIN out.events :
              /\ out.events[i].src # "method"
              /\ out.events[i].path[1] # "bb"

\* after MyChild was compiled, an instance of the sibling whose values a and c
\* the validate methods of MyChild reject was validated without an error
C27_Witness ==
    /\ out.op = "validate" /\ out.type = "AnotherChild" /\ out.exc = ""
    /\ schema["MyChild"].fields.set
    /\ \E i \in DOMAIN schema["MyChild"].fields.v :
          schema["MyChild"].fields.v[i].validator_method = "odd_only"
    /\ GetAttr(inst, "a") = IntV(2) /\ GetAttr(inst, "c") = IntV(1)

-----------------------------------------------------------------------------
(* A program with nullable fields that have validators                     *)

\* class Nullable(Model):
\*     normal: Optional[int] = None
\*     min: int = IntField(min_value=4)
\*     max: Optional[int] = IntField(max_value=7, default=5,
\*                                   validators=[not_1, not_none])
\*     top: Optional[int] = IntField(min_value=2, default=None)
\*     def validate_min(self, value, _): odd_only
\*     def validate_top(self, value, _): not_none
NullableProgram ==
    [T \in {"Nullable"} |->
        Class(<<>>,
              <<Declared("normal", InitDefault(Optional(BlankField("int")), None)),
                Declared("min", SetMinMax(BlankField("int"), 4, Absent)),
                Declared("max", [InitDefault(Optional(SetMinMax(BlankField("int"), Absent, 7)),
                                             IntV(5))
                                    EXCEPT !.validators = <<"not_1", "not_none">>]),
                Declared("top", InitDefault(Optional(SetMinMax(BlankField("int"), 2, Absent)),
                                            None))>>,
              <<>>, [n \in {"min", "top"} |-> IF n = "min" THEN "odd_only" ELSE "not_none"],
              <<>>, "")]

NullableInit ==
    /\ roles = DefaultRegistry
    /\ decl = NullableProgram
    /\ schema = [T \in {"Nullable"} |-> Uncompiled]
    /\ heap = <<>>
    /\ inst = None
    /\ out = NoOut
    /\ pc = <<>>

NullableRaws ==
    {HideRaw(<<Entry("normal", n), Entry("min", lo), Entry("max", hi), Entry("top", t)>>) :
        n \in {Missing, None, IntV(1)}, lo \in {Missing, None, IntV(4), IntV(5)},
        hi \in {Missing, None, IntV(1), IntV(8)}, t \in {Missing, None, IntV(1)}}

NullableNext ==
    \/ \E raw \in NullableRaws : Construct("Nullable", raw)
    \/ ValidateInstance

SpecNullable == NullableInit /\ [][NullableNext]_vars

-----------------------------------------------------------------------------
(* Properties of null in nullable fields, checked under SpecNullable        *)

\* the checks validate() ran at the key of a field, of one kind
ChecksAt(key, src) ==
    SelectSeq(out.events, LAMBDA e : e.path = <<key>> /\ e.src = src)

\* C28: for a nullable field holding null, validate() does not run the
\* field's native rule and reports no 'required' error, but invokes the
\* validate_<field> method, when the model has one, and every declared
\* validator callable, in order, with the null value; what they raise for null
\* is reported at the field's key.
C28_NullStillValidated ==
    out.op = "validate" =>
        \A i \in DOMAIN schema[inst.s].fields.v :
            LET f == schema[inst.s].fields.v[i]
                method == IF f.name \in DOMAIN decl[inst.s].validate
                          THEN decl[inst.s].validate[f.name] ELSE NoName
            IN (f.allow_none /\ GetAttr(inst, f.name) = None) =>
                  /\ ChecksAt(f.name, "native") = <<>>
                  /\ ChecksAt(f.name, "required") = <<>>
                  /\ ChecksAt(f.name, "validator")
                        = [k \in DOMAIN f.validators |->
                              Event(<<f.name>>, "validator",
                                    ValidatorMessage(f.validators[k], None))]
                  /\ ChecksAt(f.name, "method")
                        = IF method = NoName THEN <<>>
                          ELSE <<Event(<<f.name>>, "method",
                                       MethodMessage(method, inst, None))>>
                  /\ \A e \in SeqToSet(ChecksAt(f.name, "validator")
                                       \o ChecksAt(f.name, "method")) :
                        e.msg # "" =>
                            [path |-> e.path, msg |-> e.msg] \in SeqToSet(out.errors)

\* validate() on an instance whose nullable fields max and top hold null: the
\* validator callable of max and the validate_top method rejected the null,
\* and no native rule ran for either
C28_Witness ==
    /\ out.op = "validate" /\ inst.s = "Nullable" /\ out.exc = "ValidationError"
    /\ GetAttr(inst, "max") = None /\ GetAttr(inst, "top") = None
    /\ GetAttr(inst, "min") = IntV(5)
    /\ out.errors = <<[path |-> <<"max">>, msg |-> "Must not be null"],
                      [path |-> <<"top">>, msg |-> "Method rejects null"]>>

-----------------------------------------------------------------------------
(* Schema compilation that raises                                          *)

\* ModelMeta._collect_own_requested_roles, lines 236-239: declare_roles yields
\* two requests for one role
ConfiguredTwice(T) ==
    \E i, j \in DOMAIN decl[T].declare_roles :
        i < j /\ decl[T].declare_roles[i].role = decl[T].declare_roles[j].role

\* ModelMeta._initialize_model, lines 101-107: the schemas when _build_roles
\* is called, the bases being compiled
BeforeBuildRoles(sch, T) ==
    With(AnalyzeSerializable(T), LAMBDA serializable :
    With(SelectSeq(AnalyzeFields(sch, T),
                   LAMBDA f : f.name \notin FieldNamesOf(serializable)),
         LAMBDA input_fields :
    With(SelectSeq(input_fields, HasValidation), LAMBDA validated :
        [sch EXCEPT ![T] =
            [Uncompiled EXCEPT
                !.fields = SetTo(input_fields \o serializable),
                !.input_fields = SetTo([i \in DOMAIN input_fields |-> input_fields[i].name]),
                !.validated_fields = SetTo([i \in DOMAIN validated |-> validated[i].name])]])))

RECURSIVE InitializeOrRaise(_, _)
RECURSIVE EnsureParentsOrRaise(_, _)

\* ModelMeta._ensure_parent_models: an exception of a base's compilation
\* passes through
EnsureParentsOrRaise(sch, bases) ==
    IF bases = <<>> THEN [sch |-> sch, exc |-> ""]
    ELSE IF sch[Head(bases)].fields.set THEN EnsureParentsOrRaise(sch, Tail(bases))
    ELSE With(InitializeOrRaise(sch, Head(bases)), LAMBDA r :
            IF r.exc # "" THEN r ELSE EnsureParentsOrRaise(r.sch, Tail(bases)))

\* cls.__initialize_model__(): the schemas it leaves and what it raises.
\* _build_roles raises ConfigurationError for a role configured twice, and
\* TypeError when it iterates the __roles__ of a base that is NotImplemented.
InitializeOrRaise(sch, T) ==
    With(EnsureParentsOrRaise(sch, decl[T].bases), LAMBDA p :
        IF p.exc # "" THEN p
        ELSE IF ConfiguredTwice(T)
        THEN [sch |-> BeforeBuildRoles(p.sch, T), exc |-> "ConfigurationError"]
        ELSE IF \E i \in DOMAIN decl[T].bases : ~p.sch[decl[T].bases[i]].roles.set
        THEN [sch |-> BeforeBuildRoles(p.sch, T), exc |-> "TypeError"]
        ELSE [sch |-> InitializeModel(p.sch, T), exc |-> ""])

\* the operation op on T raised from the compilation
Failed(op, T, r) ==
    /\ schema' = r.sch
    /\ out' = [NoOut EXCEPT !.op = op, !.type = T, !.exc = r.exc]
    /\ UNCHANGED <<pc, roles, decl, heap, inst>>

\* instance = T(raw_data), lines 39-40: compiled when __input_fields__ is
\* NotImplemented
ConstructOrRaise(T, raw_data) ==
    IF schema[T].input_fields.set
    THEN Constructed(T, raw_data, schema, ModelInit(schema, T, raw_data))
    ELSE With(InitializeOrRaise(schema, T), LAMBDA r :
            IF r.exc # "" THEN Failed("construct", T, r)
            ELSE Constructed(T, raw_data, r.sch, ModelInit(r.sch, T, raw_data)))

\* T.fields_for_role(role), lines 219-220: compiled when __role_fields__ is
\* NotImplemented
QueryOrRaise(T, code) ==
    IF schema[T].role_fields.set
    THEN Queried(T, code, schema, FieldsForRole(schema[T], RoleByCode(code)))
    ELSE With(InitializeOrRaise(schema, T), LAMBDA r :
            IF r.exc # "" THEN Failed("fields_for_role", T, r)
            ELSE Queried(T, code, r.sch, FieldsForRole(r.sch[T], RoleByCode(code))))

\* instance.serialize(role): len(self.__role_fields__) raises TypeError while
\* __role_fields__ is NotImplemented
SerializeOrRaise(code) ==
    /\ inst # None
    /\ IF schema[inst.s].role_fields.set THEN Serialize(code)
       ELSE /\ out' = [NoOut EXCEPT !.op = "serialize", !.type = inst.s, !.role = code,
                                    !.exc = "TypeError"]
            /\ UNCHANGED <<pc, roles, decl, schema, heap, inst>>

\* class BadRoles(Model):   x: int = 1
\*     def declare_roles(cls): yield r1.whitelist(cls.x);  yield r1.blacklist(cls.x)
\* class Sub(BadRoles):     y: int = 2
\*     def declare_roles(cls): yield r1.whitelist(cls.y)
\* class Plain(Model):      z: int = 3
BadRolesProgram ==
    [T \in {"BadRoles", "Sub", "Plain"} |->
        CASE T = "BadRoles" ->
                Class(<<>>, <<IntDefault("x", 1)>>, <<>>, <<>>,
                      <<Whitelist(1, {"x"}, FALSE), Blacklist(1, {"x"}, FALSE)>>, "")
          [] T = "Sub" ->
                Class(<<"BadRoles">>, <<IntDefault("y", 2)>>, <<>>, <<>>,
                      <<Whitelist(1, {"y"}, FALSE)>>, "")
          [] T = "Plain" -> Class(<<>>, <<IntDefault("z", 3)>>, <<>>, <<>>, <<>>, "")]

BadRolesInit ==
    /\ roles = DataRoles
    /\ decl = BadRolesProgram
    /\ schema = [T \in {"BadRoles", "Sub", "Plain"} |-> Uncompiled]
    /\ heap = <<>>
    /\ inst = None
    /\ out = NoOut
    /\ pc = <<>>

BadRolesRaws ==
    {HideRaw(<<Entry("x", x), Entry("y", y), Entry("z", z)>>) :
        x \in {Missing, IntV(4)}, y \in {Missing, IntV(5)}, z \in {Missing, IntV(6)}}

BadRolesNext ==
    \/ \E T \in DOMAIN decl, raw \in BadRolesRaws : ConstructOrRaise(T, raw)
    \/ \E T \in DOMAIN decl, code \in 0..(Len(roles) - 1) : QueryOrRaise(T, code)
    \/ \E code \in 0..(Len(roles) - 1) : SerializeOrRaise(code)

SpecBadRoles == BadRolesInit /\ [][BadRolesNext]_vars

-----------------------------------------------------------------------------
(* Properties of failed compilation, checked under SpecBadRoles             *)

\* the compilation of T raises ConfigurationError: T or one of the classes it
\* inherits from configures a role twice
CannotCompile(T) == \E U \in SeqToSet(Mro(T)) : ConfiguredTwice(U)

\* C29: if schema compilation of a model type raises ConfigurationError, the
\* type is left not yet compiled, with none of its compiled tables set, so
\* every later first-use attempt (construct or role query, on the type or on
\* a subtype) raises ConfigurationError again and never operates on a
\* partially compiled schema.
C29_FailedCompilation ==
    /\ \A T \in DOMAIN decl :
          IF CannotCompile(T)
          THEN schema[T] = Uncompiled
          ELSE schema[T].fields.set => FullyCompiled(T)
    /\ (out.op \in {"construct", "fields_for_role"} /\ CannotCompile(out.type)) =>
          out.exc = "ConfigurationError"

\* types that can be compiled are compiled in full, and the first use of a
\* type that configures a role twice raises ConfigurationError
C29_FirstAttempt ==
    /\ \A T \in DOMAIN decl : ~CannotCompile(T) =>
          (schema[T].fields.set => FullyCompiled(T))
    /\ (out.op \in {"construct", "fields_for_role"} /\ out.exc = "ConfigurationError") =>
          CannotCompile(out.type)

-----------------------------------------------------------------------------
(* Properties of serialized values, checked under SpecComputed              *)

RECURSIVE HoldsMissing(_)
\* the value is Missing or holds it, at any depth of its lists and maps
HoldsMissing(v) ==
    \/ v = Missing
    \/ \E i \in DOMAIN v.items : HoldsMissing(v.items[i])

\* C30: no value in the map serialize(role) returns is the Missing sentinel,
\* for input fields and computed fields alike and at every nesting depth.
C30_NoMissingInOutput ==
    out.op = "serialize" => ~HoldsMissing(out.v)

\* the same for the entries serialize writes for input fields
C30_InputFields ==
    out.op = "serialize" =>
        \A i \in DOMAIN out.v.items :
            out.v.items[i].s \in {"a", "b"} => ~HoldsMissing(out.v.items[i])

====
